---- MODULE Spec2Model ----
(***************************************************************************)
(* Model of the alpaca-dslr generator: the schema normalisation pipeline   *)
(* of src/generator/index.ts (first pass over the operations, second pass  *)
(* over the type table, diagnostics, render, rustfmt, write) and the       *)
(* canonical-name lookup of src/unnamed/part_001.  The enumerator ops(),   *)
(* the canonicalizer on integer schemas and the stripper on request        *)
(* schemas are also run on their own, over the inputs they can be given.   *)
(*                                                                         *)
(* JSON values are tagged records.  An object is the sequence of its       *)
(* <<key, value>> pairs in insertion order, because JSON.stringify (the    *)
(* dedup key) is sensitive to that order while assert.deepEqual is not.    *)
(* A number is kept as hi * 65536 + lo so that the 32-bit range limits of  *)
(* the source can be written down.                                         *)
(***************************************************************************)
EXTENDS Integers, Sequences, FiniteSets, TLC

VARIABLES
    ops,            \* the document's operations, in enumeration order (api.paths)
    heap,           \* schema objects by identity: Seq of JSON objects
    table,          \* api.components.schemas: Seq of <<name, entry>>, insertion order
    groupedOps,     \* the request/response references recorded per operation
    refReplacements,\* Seq of <<name, replacementName>>
    groupCounts,    \* Seq of <<key, count>>, insertion order
    warnings,       \* the console.warn calls, Seq of <<key, count>>
    phase,          \* position of the script
    opIdx,          \* first pass: index of the next operation
    entries,        \* second pass: the Object.entries snapshot being iterated
    entryIdx,       \* second pass: index of the next snapshot entry
    error,          \* the message of the fatal error, "" if none
    output,         \* what exists of the generated text: "none", "rendered",
                    \* "formatted" or "written"
    kindLog,        \* the setXKind calls made so far: [id, kind, prev, threw]
    rerun,          \* the table a second run of the second pass started from
    keyIn,          \* dedup key study: the pair of schemas and how they differ
    keyOut,         \* dedup key study: the two keys
    devices,        \* CanonicalDevices._devices: Seq of <<lowercased name, device>>
    lookup,         \* the last getDevice/getMethod call and its outcome
    apiPaths,       \* enumerator study: api.paths, Seq of [path, methods]
    yielded,        \* enumerator study: what ops() has yielded so far
    cursor          \* enumerator study: <<path index, method index>> of ops()

pipeVars == <<ops, heap, table, groupedOps, refReplacements, groupCounts,
              warnings, phase, opIdx, entries, entryIdx, error, output, kindLog, rerun>>
keyVars == <<keyIn, keyOut>>
nameVars == <<devices, lookup>>
enumVars == <<apiPaths, yielded, cursor>>
vars == <<ops, heap, table, groupedOps, refReplacements, groupCounts,
          warnings, phase, opIdx, entries, entryIdx, error, output, kindLog, rerun,
          keyIn, keyOut, devices, lookup, apiPaths, yielded, cursor>>

----------------------------------------------------------------------------
(* JSON values *)

Undef == [t |-> "undef"]
Str(s) == [t |-> "str", s |-> s]
Bool(b) == [t |-> "bool", b |-> b]
Num(n) == [t |-> "num", hi |-> 0, lo |-> n]
Big(hi, lo) == [t |-> "num", hi |-> hi, lo |-> lo]
Arr(xs) == [t |-> "arr", xs |-> xs]
Obj(kv) == [t |-> "obj", kv |-> kv]

IsObj(v) == v.t = "obj"

\* the element of a one-element set; {e : x \in {v}} binds x to the value v
The(S) == CHOOSE x \in S : TRUE

\* a function on 1..n as the sequence of its values
Tuple(f) == f \o <<>>

KeySet(obj) == UNION {{o.kv[i][1] : i \in 1..Len(o.kv)} : o \in {obj}}
Has(o, k) == k \in KeySet(o)

\* o[k]: undefined when the key is absent
Get(obj, k) == The({
    IF IsObj(o) /\ Has(o, k)
    THEN o.kv[CHOOSE i \in 1..Len(o.kv) : o.kv[i][1] = k][2]
    ELSE Undef
    : o \in {obj}})

\* o[k] = v: an existing key keeps its position, a new key goes last
Put(obj, k, val) == The({
    IF Has(o, k)
    THEN Obj(Tuple([i \in 1..Len(o.kv) |-> IF o.kv[i][1] = k THEN <<k, v>> ELSE o.kv[i]]))
    ELSE Obj(Append(o.kv, <<k, v>>))
    : o \in {obj}, v \in {val}})

\* delete o[k]
Del(o, k) == Obj(SelectSeq(o.kv, LAMBDA p : p[1] # k))

\* let {k1, k2, ...rest} = o: the rest, in o's order
Rest(o, ks) == Obj(SelectSeq(o.kv, LAMBDA p : p[1] \notin ks))

\* {k1, k2} picked out of o in the order written, missing ones undefined
Pick(obj, ks) == The({Obj(Tuple([i \in 1..Len(ks) |-> <<ks[i], Get(o, ks[i])>>])) : o \in {obj}})

----------------------------------------------------------------------------
(* References.  A type name is a sequence of tokens (the operation id's    *)
(* tokens followed by the role), so that minted names can be built.        *)

MakeRef(name) == Obj(<< <<"$ref", [t |-> "path", name |-> name]>> >>)

isRef(maybeRef) == \E v \in {maybeRef} : v.t # "undef" /\ IsObj(v) /\ Has(v, "$ref")

----------------------------------------------------------------------------
(* The canonicalizer and the dedup key *)

Int32Min == Big(-32768, 0)
Int32Max == Big(32767, 65535)
Uint32Min == Big(0, 0)
Uint32Max == Big(65535, 65535)

\* {int32: {...}, uint32: {...}}[format]
RangeOf(fmt) == The({
    CASE format = Str("int32") -> [known |-> TRUE, min |-> Int32Min, max |-> Int32Max]
      [] format = Str("uint32") -> [known |-> TRUE, min |-> Uint32Min, max |-> Uint32Max]
      [] OTHER -> [known |-> FALSE, min |-> Undef, max |-> Undef]
    : format \in {fmt}})

DropDefaultIf(schema, v) ==
    The({IF Get(obj, "default") = v THEN Del(obj, "default") ELSE obj : obj \in {schema}})

\* a range check that drops both bounds whatever their values
DropRangeAlways(schema) == Del(Del(schema, "minimum"), "maximum")

DropRange(schema) == The(UNION {
    { IF range.known /\ Get(o1, "maximum") = range.max THEN Del(o1, "maximum") ELSE o1 :
        o1 \in {IF range.known /\ Get(obj, "minimum") = range.min
                THEN Del(obj, "minimum") ELSE obj} } :
      obj \in {schema}, range \in {RangeOf(Get(schema, "format"))} })

DefaultFormat(schema) ==
    The({IF Get(obj, "format") = Undef THEN Put(obj, "format", Str("int32")) ELSE obj :
           obj \in {schema}})

RECURSIVE cleanupSchema(_)
cleanupSchema(schema) == The({
    LET ty == Get(obj, "type") IN
    CASE ty = Str("array") ->
           IF isRef(Get(obj, "items")) THEN obj
           ELSE Put(obj, "items", cleanupSchema(Get(obj, "items")))
      [] ty = Str("object") ->
           LET props == Get(obj, "properties") IN
           Put(obj, "properties",
               Obj(Tuple([i \in 1..Len(props.kv) |->
                            <<props.kv[i][1],
                              IF isRef(props.kv[i][2]) THEN props.kv[i][2]
                              ELSE cleanupSchema(props.kv[i][2])>>])))
      [] ty = Str("string") -> DropDefaultIf(obj, Str(""))
      [] ty = Str("boolean") -> DropDefaultIf(obj, Bool(FALSE))
      [] ty = Str("integer") -> DropDefaultIf(DropRange(DefaultFormat(obj)), Num(0))
      [] ty = Str("number") -> DropDefaultIf(obj, Num(0))
      [] OTHER -> obj
    : obj \in {schema}})

\* cleanupSchema throws: Object.values(undefined), or .type of undefined
RECURSIVE cleanupThrows(_)
cleanupThrows(schema) == \E obj \in {schema} :
    LET ty == Get(obj, "type") IN
    CASE ~IsObj(obj) -> TRUE
      [] ty = Str("array") ->
           ~isRef(Get(obj, "items")) /\ cleanupThrows(Get(obj, "items"))
      [] ty = Str("object") ->
           LET props == Get(obj, "properties") IN
           \/ ~IsObj(props)
           \/ \E i \in 1..Len(props.kv) :
                 ~isRef(props.kv[i][2]) /\ cleanupThrows(props.kv[i][2])
      [] OTHER -> FALSE

\* a replacer that tests for the wrong key
ReplacerWrongKey(k, v) == IF k = "Description" THEN Undef ELSE v

\* the replacer (k, v) => (k === 'description' ? undefined : v)
Replacer(k, v) == IF k = "description" THEN Undef ELSE v

\* JSON.stringify(obj, replacer): the text, as the value it denotes.  Keys
\* whose value is undefined are left out; the order of the keys is kept.
RECURSIVE jsonWithoutOptFields(_)
jsonWithoutOptFields(obj) == The({
    CASE v.t = "obj" ->
           LET kept == SelectSeq(v.kv, LAMBDA p : Replacer(p[1], p[2]).t # "undef") IN
           Obj(Tuple([i \in 1..Len(kept) |->
                        <<kept[i][1], jsonWithoutOptFields(kept[i][2])>>]))
      [] v.t = "arr" ->
           Arr(Tuple([i \in 1..Len(v.xs) |-> jsonWithoutOptFields(v.xs[i])]))
      [] OTHER -> v
    : v \in {obj}})

\* JSON.parse(jsonWithoutOptFields(obj))
withoutOptFields(obj) == jsonWithoutOptFields(obj)

\* assert.deepEqual in strict mode: objects by key set, arrays by position
RECURSIVE deepEqual(_, _)
deepEqual(actual, expected) == \E a \in {actual}, b \in {expected} :
    CASE a.t # b.t -> FALSE
      [] a.t = "obj" ->
           /\ Len(a.kv) = Len(b.kv)
           /\ KeySet(a) = KeySet(b)
           /\ \A k \in KeySet(a) : deepEqual(Get(a, k), Get(b, k))
      [] a.t = "arr" ->
           /\ Len(a.xs) = Len(b.xs)
           /\ \A i \in 1..Len(a.xs) : deepEqual(a.xs[i], b.xs[i])
      [] OTHER -> a = b

----------------------------------------------------------------------------
(* The type table, the heap of schema objects and the references *)

\* a slot that holds a schema: the object itself (inline) or a $ref to a name
Inline(id) == [ref |-> FALSE, id |-> id, name |-> <<>>]
RefTo(name) == [ref |-> TRUE, id |-> 0, name |-> name]

TableNames(tbl) == {tbl[i][1] : i \in 1..Len(tbl)}
TableAt(tbl, name) == tbl[CHOOSE i \in 1..Len(tbl) : tbl[i][1] = name][2]

\* refs.get(ref.$ref) for a schema reference: the object the name designates,
\* through an entry that is itself a $ref
RECURSIVE refsGet(_, _)
refsGet(tbl, name) ==
    LET e == TableAt(tbl, name) IN IF e.ref THEN refsGet(tbl, e.name) ELSE e.id

\* refs.get throws when the name, or a name on the way, is not in the table
RECURSIVE refsGetThrows(_, _)
refsGetThrows(tbl, name) ==
    \/ name \notin TableNames(tbl)
    \/ TableAt(tbl, name).ref /\ refsGetThrows(tbl, TableAt(tbl, name).name)

resolveMaybeRef(tbl, slot) == IF slot.ref THEN refsGet(tbl, slot.name) ELSE slot.id
resolveThrows(tbl, slot) == slot.ref /\ refsGetThrows(tbl, slot.name)

\* api.components.schemas[name] = schema: an existing name keeps its place
SetEntry(schemas, name, slot) == The({
    IF name \in TableNames(tbl)
    THEN Tuple([i \in 1..Len(tbl) |-> IF tbl[i][1] = name THEN <<name, slot>> ELSE tbl[i]])
    ELSE Append(tbl, <<name, slot>>)
    : tbl \in {schemas}})

DeleteEntry(tbl, name) == SelectSeq(tbl, LAMBDA e : e[1] # name)

registerSchema(tbl, name, id) == SetEntry(tbl, name, Inline(id))

\* setXKind: the assertion fails when a truthy x-kind differs from kind
Truthy(val) == \E v \in {val} : v.t # "undef" /\ v # Str("") /\ v # Bool(FALSE) /\ v # Num(0)
KindOf(schema) == Get(schema, "x-kind")
\* a setXKind without the assertion
setXKindNeverThrows(schema, kind) == FALSE

setXKindThrows(schema, kind) ==
    \E prev \in {KindOf(schema)} : Truthy(prev) /\ prev # Str(kind)
setXKind(schema, kind) == Put(schema, "x-kind", Str(kind))

\* heap with object id replaced
HeapSet(h, id, v) == [h EXCEPT ![id] = v]

----------------------------------------------------------------------------
(* The enumerator *)

Placeholders == {"{device_number}", "{device_type}", "{id}"}

\* /^\{.*\}$/.test(x)
IsPlaceholder(seg) == seg \in Placeholders

\* \w+
IsWord(seg) == seg \notin Placeholders /\ seg # ""

\* a path2id without the filter
path2idKeepsAll(path) == path

\* path.split('/').slice(1).filter(...).join('_'), as the list of its tokens
path2id(path) == SelectSeq(path, LAMBDA x : ~IsPlaceholder(x))

\* `${method}_${pathId}`
OpId(op) == <<op.method>> \o path2id(op.path)

\* the words toPascalCase finds in a token: it splits at every run of
\* characters that are no letter or digit and between a lower-case and an
\* upper-case letter, and lower-cases what it finds
WordsOf(token) ==
    CASE token = "telescope_connected" -> <<"telescope", "connected">>
      [] token = "Telescope" -> <<"telescope">>
      [] OTHER -> <<token>>

\* toPascalCase(id), as the list of the words it capitalises
toPascalCase(id) ==
    LET F[i \in 0..Len(id)] == IF i = 0 THEN <<>> ELSE F[i - 1] \o WordsOf(id[i])
    IN  F[Len(id)]

\* /^\/(\{device_type\}|\w+)\/\{device_number\}\/(\w+)$/
pathMatch(path) ==
    /\ Len(path) = 3
    /\ path[1] = "{device_type}" \/ IsWord(path[1])
    /\ path[2] = "{device_number}"
    /\ IsWord(path[3])

----------------------------------------------------------------------------
(* The first pass: one operation *)

ParamsIn(op, where) == SelectSeq(op.params, LAMBDA q : q.in = where)

\* Object.fromEntries(pathParams.map(...)): a repeated name keeps the last value
PathParamShape(params) ==
    LET F[i \in 0..Len(params)] ==
          IF i = 0 THEN Obj(<<>>)
          ELSE Put(F[i - 1], params[i].name,
                   Obj(<< <<"type", Get(params[i].schema, "type")>>,
                          <<"required", params[i].required>> >>))
    IN  F[Len(params)]

ExpectedPathParams(groupPath) ==
    LET dn == <<"device_number",
                Obj(<< <<"type", Str("integer")>>, <<"required", Bool(TRUE)>> >>)>>
        dt == <<"device_type",
                Obj(<< <<"type", Str("string")>>, <<"required", Bool(TRUE)>> >>)>>
    IN  IF groupPath = "{device_type}" THEN Obj(<<dt, dn>>) ELSE Obj(<<dn>>)

\* {description: param.description, ...param.schema}
SpreadParam(q) ==
    LET F[i \in 0..Len(q.schema.kv)] ==
          IF i = 0 THEN Obj(<< <<"description", q.description>> >>)
          ELSE Put(F[i - 1], q.schema.kv[i][1], q.schema.kv[i][2])
    IN  F[Len(q.schema.kv)]

\* lines 208-214: one query parameter added to the request schema
AddQueryParam(requestParams, param) == The({
    IF Truthy(param.required)
    THEN Put(o1, "required",
             Arr(Append(IF Has(o1, "required") THEN Get(o1, "required").xs ELSE <<>>,
                        Str(param.name))))
    ELSE o1
    : o1 \in {Put(requestParams, "properties",
                  Put(Get(requestParams, "properties"), param.name, SpreadParam(param)))}})

\* the request schema built from the query parameters of a get
QueryRequestParams(queryParams) ==
    LET F[i \in 0..Len(queryParams)] ==
          IF i = 0
          THEN Obj(<< <<"type", Str("object")>>, <<"properties", Obj(<<>>)>> >>)
          ELSE The({AddQueryParam(prev, queryParams[i]) : prev \in {F[i - 1]}})
    IN  F[Len(queryParams)]

\* a getContent that takes whatever content type comes first
getContentErrorAnyContent(h, tbl, owner, contentType) ==
    IF Get(h[resolveMaybeRef(tbl, owner.content[1][2])], "type") # Str("object")
    THEN "Content is not an object"
    ELSE ""

\* getContent: "" when it returns, else the message of the failed assertion
getContentError(h, tbl, owner, contentType) ==
    IF [i \in 1..Len(owner.content) |-> owner.content[i][1]] # <<contentType>>
    THEN "Unexpected content types"
    ELSE IF Get(h[resolveMaybeRef(tbl, owner.content[1][2])], "type") # Str("object")
    THEN "Content is not an object"
    ELSE ""

errorResponseShape ==
    Obj(<< <<"content",
             Obj(<< <<"text/plain",
                      Obj(<< <<"schema", Obj(<< <<"type", Str("string")>> >>)>> >>)>> >>)>> >>)

ExpectedErrorResponses ==
    Obj(<< <<"400", errorResponseShape>>, <<"500", errorResponseShape>> >>)

\* the checks before the request is looked at; "" when all pass
PreambleError(op) ==
    LET pathParams == ParamsIn(op, "path") IN
    IF op.tags # 1 THEN "Unexpected number of tags"
    ELSE IF ~pathMatch(op.path) THEN "Path in unexpected format"
    ELSE IF \E i \in 1..Len(op.params) : op.params[i].in \notin {"path", "query"}
    THEN "Unexpected parameters"
    ELSE IF pathParams = <<>> THEN "TypeError: pathParams is undefined"
    ELSE IF ~deepEqual(PathParamShape(pathParams), ExpectedPathParams(op.path[1]))
    THEN "Unexpected path parameters"
    ELSE ""

\* Tagging through a slot, after registering an inline schema under name.
\* Gives the state after the statements that ran and the error that stopped them.
RegisterAndTag(h, tbl, owner, name, kind) ==
    LET slot == owner.content[1][2]
        id == resolveMaybeRef(tbl, slot)
        tbl1 == IF slot.ref THEN tbl ELSE registerSchema(tbl, name, id)
        slot1 == IF slot.ref THEN slot ELSE RefTo(name)
        owner1 == [owner EXCEPT !.content = << <<owner.content[1][1], slot1>> >>]
        call(threw) == <<[id |-> id, kind |-> kind, prev |-> KindOf(h[id]), threw |-> threw]>>
    IN  IF setXKindThrows(h[id], kind)
        THEN [heap |-> h, table |-> tbl1, owner |-> owner1, ref |-> slot1.name,
              err |-> "Conflicting x-kind", calls |-> call(TRUE)]
        ELSE [heap |-> HeapSet(h, id, setXKind(h[id], kind)), table |-> tbl1,
              owner |-> owner1, ref |-> slot1.name, err |-> "", calls |-> call(FALSE)]

\* lines 194-238: the request of one operation
RequestStage(op, h, tbl) == The({
    LET typeId == toPascalCase(OpId(op))
        name == typeId \o <<"Request">>
        stop(msg) == [heap |-> h, table |-> tbl, owner |-> op.body, ref |-> <<>>,
                      err |-> msg, calls |-> <<>>]
    IN  IF op.method = "get"
        THEN IF queryParams = <<>> THEN stop("Missing query parameters")
             ELSE IF op.body.present THEN stop("Unexpected request body")
             ELSE IF setXKindThrows(fresh, "Request")
             THEN [heap |-> Append(h, fresh),
                   table |-> registerSchema(tbl, name, Len(h) + 1),
                   owner |-> op.body, ref |-> name, err |-> "Conflicting x-kind",
                   calls |-> <<[id |-> Len(h) + 1, kind |-> "Request",
                                prev |-> KindOf(fresh), threw |-> TRUE]>>]
             ELSE [heap |-> Append(h, setXKind(fresh, "Request")),
                   table |-> registerSchema(tbl, name, Len(h) + 1),
                   owner |-> op.body, ref |-> name, err |-> "",
                   calls |-> <<[id |-> Len(h) + 1, kind |-> "Request",
                                prev |-> KindOf(fresh), threw |-> FALSE]>>]
        ELSE IF queryParams # <<>> THEN stop("Unexpected query parameters")
             ELSE IF ~op.body.present THEN stop("Missing request body")
             ELSE IF getContentError(h, tbl, op.body, "application/x-www-form-urlencoded") # ""
             THEN stop(getContentError(h, tbl, op.body, "application/x-www-form-urlencoded"))
             ELSE RegisterAndTag(h, tbl, op.body, name, "Request")
    : queryParams \in {ParamsIn(op, "query")},
      fresh \in {QueryRequestParams(ParamsIn(op, "query"))}})

\* lines 240-269: the responses of one operation
ResponseStage(op, h, tbl) ==
    LET typeId == toPascalCase(OpId(op))
        name == typeId \o <<"Response">>
        stop(msg) == [heap |-> h, table |-> tbl, owner |-> op.ok, ref |-> <<>>,
                      err |-> msg, calls |-> <<>>]
    IN  IF ~op.ok.present THEN stop("Missing successful response")
        ELSE IF ~deepEqual(withoutOptFields(op.errors), ExpectedErrorResponses)
        THEN stop("Unexpected error responses")
        ELSE IF getContentError(h, tbl, op.ok, "application/json") # ""
        THEN stop(getContentError(h, tbl, op.ok, "application/json"))
        ELSE RegisterAndTag(h, tbl, op.ok, name, "Response")

\* what one operation leaves, given the outcome of its three stages
OperationOutcome(op, h, tbl, pre, rq, rs) ==
    IF pre # ""
    THEN [heap |-> h, table |-> tbl, op |-> op, err |-> pre,
          request |-> <<>>, response |-> <<>>, calls |-> <<>>]
    ELSE IF rq.err # ""
    THEN [heap |-> rq.heap, table |-> rq.table, op |-> [op EXCEPT !.body = rq.owner],
          err |-> rq.err, request |-> rq.ref, response |-> <<>>, calls |-> rq.calls]
    ELSE [heap |-> rs.heap, table |-> rs.table,
          op |-> [op EXCEPT !.body = rq.owner, !.ok = rs.owner],
          err |-> rs.err, request |-> rq.ref, response |-> rs.ref,
          calls |-> rq.calls \o rs.calls]

\* lines 157-281: the body of the loop over ops() for one operation.  The
\* stages are bound one after the other, the responses to the state the
\* request left.
FirstPass(op, h, tbl) ==
    The(UNION {
          { OperationOutcome(op, h, tbl, pre, rq, rs) :
              rs \in {IF pre = "" /\ rq.err = "" THEN ResponseStage(op, rq.heap, rq.table)
                      ELSE rq} } :
            pre \in {PreambleError(op)}, rq \in {RequestStage(op, h, tbl)} })

ClassifyOp ==
    /\ phase = "first"
    /\ opIdx <= Len(ops)
    /\ \E r \in {FirstPass(ops[opIdx], heap, table)} :
         /\ heap' = r.heap
         /\ table' = r.table
         /\ ops' = [ops EXCEPT ![opIdx] = r.op]
         /\ kindLog' = kindLog \o r.calls
         /\ IF r.err # ""
            THEN /\ phase' = "aborted"
                 /\ error' = r.err
                 /\ UNCHANGED <<groupedOps, opIdx>>
            ELSE /\ groupedOps' = Append(groupedOps,
                        [groupPath |-> ops[opIdx].path[1], subPath |-> ops[opIdx].path[3],
                         method |-> ops[opIdx].method,
                         request |-> r.request, response |-> r.response])
                 /\ opIdx' = opIdx + 1
                 /\ UNCHANGED <<phase, error>>
    /\ UNCHANGED <<refReplacements, groupCounts, warnings, entries, entryIdx, output,
                   rerun>>
    /\ UNCHANGED <<keyVars, nameVars, enumVars>>

\* line 292, the loop header: Object.entries(api.components.schemas) is taken once
StartSecondPass ==
    /\ phase = "first"
    /\ opIdx > Len(ops)
    /\ phase' = "second"
    /\ entries' = table
    /\ entryIdx' = 1
    /\ UNCHANGED <<ops, heap, table, groupedOps, refReplacements, groupCounts,
                   warnings, opIdx, error, output, kindLog, rerun>>
    /\ UNCHANGED <<keyVars, nameVars, enumVars>>

----------------------------------------------------------------------------
(* The extra schemas (src/generator/extra-schemas.ts) *)

ExtraKinds == <<"Path", "Request", "Response">>

ExtraName(kind) == << IF kind = "Path" THEN "EmptyPath"
                      ELSE IF kind = "Request" THEN "EmptyRequest"
                      ELSE "EmptyResponse" >>

ExtraSchema(kind) ==
    Obj(<< <<"type", Str("object")>>, <<"properties", Obj(<<>>)>>,
           <<"x-kind", Str(kind)>> >>)

\* the extra schemas are objects of their own: they take the first heap cells
extraSchemas == [i \in 1..Len(ExtraKinds) |-> <<ExtraName(ExtraKinds[i]), i>>]

\* a lookup that never finds the key
ReplacementNameNone(h, key) == <<>>

\* extraSchemasWithoutOptFields[key]: Object.fromEntries keeps the last name of a key
ReplacementName(h, key) ==
    LET hits == {i \in 1..Len(extraSchemas) :
                   jsonWithoutOptFields(h[extraSchemas[i][2]]) = key}
    IN  IF hits = {} THEN <<>>
        ELSE extraSchemas[CHOOSE i \in hits : \A j \in hits : j <= i][1]

----------------------------------------------------------------------------
(* The second pass: one entry of the type table *)

Uint32Field == Obj(<< <<"type", Str("integer")>>, <<"format", Str("uint32")>> >>)
Int32Field == Obj(<< <<"type", Str("integer")>>, <<"format", Str("int32")>> >>)
StringField == Obj(<< <<"type", Str("string")>> >>)

ResponseEnvelope == <<"ClientTransactionID", "ServerTransactionID",
                      "ErrorNumber", "ErrorMessage">>
RequestEnvelope == <<"ClientID", "ClientTransactionID">>

ExpectedResponseEnvelope ==
    Obj(<< <<"ClientTransactionID", Uint32Field>>, <<"ServerTransactionID", Uint32Field>>,
           <<"ErrorNumber", Int32Field>>, <<"ErrorMessage", StringField>> >>)

ExpectedRequestEnvelope ==
    Obj(<< <<"ClientID", Uint32Field>>, <<"ClientTransactionID", Uint32Field>> >>)

Range(seq) == {seq[i] : i \in 1..Len(seq)}

\* a stripper whose rest pattern forgets ErrorMessage
StripResponseKeepsMessage(schema) ==
    LET props == Get(schema, "properties") IN
    IF ~IsObj(props)
    THEN [schema |-> schema, err |-> "TypeError: properties is undefined"]
    ELSE IF ~deepEqual(withoutOptFields(Pick(props, ResponseEnvelope)),
                       ExpectedResponseEnvelope)
    THEN [schema |-> schema, err |-> "Missing response properties"]
    ELSE [schema |-> Put(schema, "properties",
                         Rest(props, Range(ResponseEnvelope) \ {"ErrorMessage"})),
          err |-> ""]

\* case 'Response' (lines 298-336): the schema after it, or the error
StripResponse(schema) ==
    LET props == Get(schema, "properties") IN
    IF ~IsObj(props)
    THEN [schema |-> schema, err |-> "TypeError: properties is undefined"]
    ELSE IF ~deepEqual(withoutOptFields(Pick(props, ResponseEnvelope)),
                       ExpectedResponseEnvelope)
    THEN [schema |-> schema, err |-> "Missing response properties"]
    ELSE [schema |-> Put(schema, "properties", Rest(props, Range(ResponseEnvelope))),
          err |-> ""]

\* a stripper that leaves the declared defaults where they are
DeleteDefaultKept(props, k) == props

\* delete (ClientID as SchemaObject).default, inside the properties
DeleteDefaultOf(props, k) == Put(props, k, Del(Get(props, k), "default"))

\* a stripper that lets a schema without ClientID through
StripRequestTolerant(schema) ==
    LET props == Get(schema, "properties")
        p1 == DeleteDefaultOf(DeleteDefaultOf(props, "ClientID"), "ClientTransactionID")
    IN  IF ~IsObj(props)
        THEN [schema |-> schema, err |-> "TypeError: properties is undefined"]
        ELSE IF ~IsObj(Get(props, "ClientID"))
        THEN [schema |-> schema, err |-> ""]
        ELSE IF ~IsObj(Get(props, "ClientTransactionID"))
        THEN [schema |-> Put(schema, "properties", DeleteDefaultOf(props, "ClientID")),
              err |-> "TypeError: ClientTransactionID is undefined"]
        ELSE IF ~deepEqual(withoutOptFields(Pick(p1, RequestEnvelope)),
                           ExpectedRequestEnvelope)
        THEN [schema |-> Put(schema, "properties", p1),
              err |-> "Missing request properties"]
        ELSE [schema |-> Put(schema, "properties", Rest(props, Range(RequestEnvelope))),
              err |-> ""]

\* case 'Request' (lines 337-363)
StripRequest(schema) ==
    LET props == Get(schema, "properties")
        p1 == DeleteDefaultOf(DeleteDefaultOf(props, "ClientID"), "ClientTransactionID")
    IN  IF ~IsObj(props)
        THEN [schema |-> schema, err |-> "TypeError: properties is undefined"]
        ELSE IF ~IsObj(Get(props, "ClientID"))
        THEN [schema |-> schema, err |-> "TypeError: ClientID is undefined"]
        ELSE IF ~IsObj(Get(props, "ClientTransactionID"))
        THEN [schema |-> Put(schema, "properties", DeleteDefaultOf(props, "ClientID")),
              err |-> "TypeError: ClientTransactionID is undefined"]
        ELSE IF ~deepEqual(withoutOptFields(Pick(p1, RequestEnvelope)),
                           ExpectedRequestEnvelope)
        THEN [schema |-> Put(schema, "properties", p1),
              err |-> "Missing request properties"]
        ELSE [schema |-> Put(schema, "properties", Rest(props, Range(RequestEnvelope))),
              err |-> ""]

\* switch (kind)
StripEnvelope(schema) ==
    CASE KindOf(schema) = Str("Response") -> StripResponse(schema)
      [] KindOf(schema) = Str("Request") -> StripRequest(schema)
      [] OTHER -> [schema |-> schema, err |-> ""]

\* a loop body that validates and strips the envelope of the schema as
\* declared, and canonicalizes what is left
NormalizeEntryStripFirst(schema) ==
    The({ IF stripped.err # "" THEN stripped
          ELSE IF cleanupThrows(stripped.schema)
          THEN [schema |-> stripped.schema, err |-> "TypeError in cleanupSchema"]
          ELSE [schema |-> cleanupSchema(stripped.schema), err |-> ""]
          : stripped \in {StripEnvelope(schema)} })

\* lines 293-364: canonicalize, then validate and strip the envelope
NormalizeEntry(schema) ==
    IF cleanupThrows(schema)
    THEN [schema |-> schema, err |-> "TypeError in cleanupSchema"]
    ELSE The({StripEnvelope(clean) : clean \in {cleanupSchema(schema)}})

\* a counter that records a key once and never counts it again
CountKeyOnce(counts, key) ==
    IF \E i \in 1..Len(counts) : counts[i][1] = key
    THEN counts
    ELSE Append(counts, <<key, 1>>)

\* groupCounts[key] ??= 0; groupCounts[key]++
CountKey(counts, key) ==
    IF \E i \in 1..Len(counts) : counts[i][1] = key
    THEN Tuple([i \in 1..Len(counts) |->
                  IF counts[i][1] = key THEN <<key, counts[i][2] + 1>> ELSE counts[i]])
    ELSE Append(counts, <<key, 1>>)

\* refReplacements[name] = {$ref: replacement}
SetReplacement(repl, name, target) ==
    IF \E i \in 1..Len(repl) : repl[i][1] = name
    THEN Tuple([i \in 1..Len(repl) |->
                  IF repl[i][1] = name THEN <<name, target>> ELSE repl[i]])
    ELSE Append(repl, <<name, target>>)

\* lines 366-380: what the entry leaves, given its normalised schema and key
EntryOutcome(h, tbl, repl, counts, entry, n, key) ==
    LET schemaName == entry[1]
        h1 == HeapSet(h, resolveMaybeRef(tbl, entry[2]), n.schema)
        replacementName == ReplacementName(h1, key)
    IN  IF n.err # ""
        THEN [heap |-> h1, table |-> tbl, repl |-> repl, counts |-> counts, err |-> n.err]
        ELSE IF replacementName # <<>>
        THEN [heap |-> h1, table |-> DeleteEntry(tbl, schemaName),
              repl |-> SetReplacement(repl, schemaName, replacementName),
              counts |-> counts, err |-> ""]
        ELSE [heap |-> h1, table |-> tbl, repl |-> repl,
              counts |-> CountKey(counts, key), err |-> ""]

\* lines 292-380: the body of the loop for one entry of the snapshot.  The
\* state after the body, as a record; the schema is normalised, then its key
\* is taken.
SecondPassBody(h, tbl, repl, counts, entry) ==
    IF resolveThrows(tbl, entry[2])
    THEN [heap |-> h, table |-> tbl, repl |-> repl, counts |-> counts,
          err |-> "MissingPointerError"]
    ELSE The(UNION {
           { EntryOutcome(h, tbl, repl, counts, entry, n, key) :
               key \in {jsonWithoutOptFields(n.schema)} } :
             n \in {NormalizeEntry(h[resolveMaybeRef(tbl, entry[2])])} })

SecondPassEntry ==
    /\ phase = "second"
    /\ entryIdx <= Len(entries)
    /\ \E r \in {SecondPassBody(heap, table, refReplacements, groupCounts,
                                 entries[entryIdx])} :
         /\ heap' = r.heap
         /\ table' = r.table
         /\ refReplacements' = r.repl
         /\ groupCounts' = r.counts
         /\ IF r.err # ""
            THEN phase' = "aborted" /\ error' = r.err /\ UNCHANGED entryIdx
            ELSE entryIdx' = entryIdx + 1 /\ UNCHANGED <<phase, error>>
    /\ UNCHANGED <<ops, groupedOps, warnings, opIdx, entries, output, kindLog, rerun>>
    /\ UNCHANGED <<keyVars, nameVars, enumVars>>

----------------------------------------------------------------------------
(* After the second pass: merge, diagnostics, render, format, write *)

\* a merge that adds nothing
MergeNothing(tbl) == tbl

\* Object.assign(api.components.schemas, extraSchemas)
MergeExtras(tbl) ==
    LET F[i \in 0..Len(extraSchemas)] ==
          IF i = 0 THEN tbl
          ELSE SetEntry(F[i - 1], extraSchemas[i][1], Inline(extraSchemas[i][2]))
    IN  F[Len(extraSchemas)]

\* a comparator that sorts by ascending count
CompareAscending(a, b) == a[2] - b[2]

\* the comparator ([_, count1], [__, count2]) => count2 - count1
Compare(a, b) == b[2] - a[2]

\* x put into a sorted list, after the elements that do not come after it
InsertSorted(sorted, x) ==
    LET before == {i \in 1..Len(sorted) : Compare(sorted[i], x) <= 0}
        k == Cardinality({i \in 1..Len(sorted) : \A j \in 1..i : j \in before})
    IN  SubSeq(sorted, 1, k) \o <<x>> \o SubSeq(sorted, k + 1, Len(sorted))

\* Array.prototype.sort with that comparator: stable
SortEntries(seq) ==
    LET F[i \in 0..Len(seq)] ==
          IF i = 0 THEN <<>>
          ELSE The({InsertSorted(sorted, seq[i]) : sorted \in {F[i - 1]}})
    IN  F[Len(seq)]

\* lines 384-392: one console.warn per shape counted more than once
DuplicateWarnings(counts) == SortEntries(SelectSeq(counts, LAMBDA e : e[2] > 1))

\* lines 382-392
MergeAndReport ==
    /\ phase = "second"
    /\ entryIdx > Len(entries)
    /\ table' = MergeExtras(table)
    /\ warnings' = DuplicateWarnings(groupCounts)
    /\ phase' = "render"
    /\ UNCHANGED <<ops, heap, groupedOps, refReplacements, groupCounts, opIdx,
                   entries, entryIdx, error, output, kindLog, rerun>>
    /\ UNCHANGED <<keyVars, nameVars, enumVars>>

\* lines 394-413: render(template, ...)
Render ==
    /\ phase = "render"
    /\ phase' = "format"
    /\ output' = "rendered"
    /\ UNCHANGED <<ops, heap, table, groupedOps, refReplacements, groupCounts,
                   warnings, opIdx, entries, entryIdx, error, kindLog, rerun>>
    /\ UNCHANGED <<keyVars, nameVars, enumVars>>

\* lines 415-425: spawnSync('rustfmt'); a spawn error or a non-zero status throws
Rustfmt ==
    /\ phase = "format"
    /\ \E outcome \in {"ok", "error", "status"} :
         IF outcome = "ok"
         THEN phase' = "write" /\ output' = "formatted" /\ UNCHANGED error
         ELSE phase' = "aborted" /\ error' = "rustfmt failed" /\ UNCHANGED output
    /\ UNCHANGED <<ops, heap, table, groupedOps, refReplacements, groupCounts,
                   warnings, opIdx, entries, entryIdx, kindLog, rerun>>
    /\ UNCHANGED <<keyVars, nameVars, enumVars>>

\* line 430: writeFile
WriteFile ==
    /\ phase = "write"
    /\ phase' = "done"
    /\ output' = "written"
    /\ UNCHANGED <<ops, heap, table, groupedOps, refReplacements, groupCounts,
                   warnings, opIdx, entries, entryIdx, error, kindLog, rerun>>
    /\ UNCHANGED <<keyVars, nameVars, enumVars>>

----------------------------------------------------------------------------
(* The documents the model is run on.  An operation is described by a      *)
(* shape: which request, which response and which preamble it has.         *)

MaxOps == 2
MaxDefault == 1

\* the marker of a schema that declares no default
NoDefault == 0 - 1
Defaults == {NoDefault} \cup (0..MaxDefault)

WithDefault(kv, d) == IF d = NoDefault THEN kv ELSE Append(kv, <<"default", Num(d)>>)

\* description texts differ from one operation to the next
Desc(i) == Str(IF i % 2 = 1 THEN "text a" ELSE "text b")

SubPaths == <<"connected", "name", "position", "slewing">>

Uint32Schema(i, d) ==
    Obj(WithDefault(<< <<"type", Str("integer")>>, <<"format", Str("uint32")>>,
                       <<"minimum", Uint32Min>>, <<"maximum", Uint32Max>>,
                       <<"description", Desc(i)>> >>, d))
Int32Schema(i, d) ==
    Obj(WithDefault(<< <<"type", Str("integer")>>, <<"format", Str("int32")>>,
                       <<"minimum", Int32Min>>, <<"maximum", Int32Max>>,
                       <<"description", Desc(i)>> >>, d))
StringSchema(i) == Obj(<< <<"type", Str("string")>>, <<"description", Desc(i)>> >>)
BoolSchema(i) == Obj(<< <<"type", Str("boolean")>>, <<"description", Desc(i)>> >>)
ArraySchema(i, d) ==
    Obj(<< <<"type", Str("array")>>, <<"description", Desc(i)>>,
           <<"items", Int32Schema(i, d)>> >>)

ObjectSchema(props) == Obj(<< <<"type", Str("object")>>, <<"properties", Obj(props)>> >>)

\* the payload properties of a request or a response
Payload(what, i, d) ==
    CASE what = "Bool" -> << <<"Value", BoolSchema(i)>> >>
      [] what = "Int" -> << <<"Value", Int32Schema(i, d)>> >>
      [] what = "Arr" -> << <<"Value", ArraySchema(i, d)>> >>
      [] OTHER -> <<>>

ResponseSchema(what, i, d) ==
    ObjectSchema(<< <<"ClientTransactionID", Uint32Schema(i, NoDefault)>>,
                    <<"ServerTransactionID", Uint32Schema(i, NoDefault)>>,
                    <<"ErrorNumber", Int32Schema(i, NoDefault)>>,
                    <<"ErrorMessage", StringSchema(i)>> >> \o Payload(what, i, d))

\* the form body of a put; ClientID declares a default in every other operation
FormSchema(what, i, d) ==
    ObjectSchema(<< <<"ClientID", Uint32Schema(i, IF i % 2 = 1 THEN 1 ELSE NoDefault)>>,
                    <<"ClientTransactionID", Uint32Schema(i, NoDefault)>> >>
                 \o Payload(what, i, d))

Param(name, where, required, schema, i) ==
    [name |-> name, in |-> where, required |-> required, description |-> Desc(i),
     schema |-> schema]

PlainUint32 == Obj(<< <<"type", Str("integer")>>, <<"format", Str("uint32")>> >>)

QueryParams(what, required, i, d) ==
    << Param("ClientID", "query", required, PlainUint32, i),
       Param("ClientTransactionID", "query", required, PlainUint32, i) >>
    \o (IF what = "Int"
        THEN << Param("Value", "query", Undef,
                      Obj(WithDefault(<< <<"type", Str("integer")>>,
                                         <<"format", Str("int32")>> >>, d)), i) >>
        ELSE <<>>)

SharedReq == <<"SharedReq">>
SharedResp == <<"SharedResp">>

NoBody == [present |-> FALSE, content |-> <<>>]
Body(ctype, slot) == [present |-> TRUE, content |-> << <<ctype, slot>> >>]

FormType == "application/x-www-form-urlencoded"
JsonType == "application/json"

ErrorResponse(i, ty) ==
    Obj(<< <<"description", Desc(i)>>,
           <<"content", Obj(<< <<"text/plain",
                                 Obj(<< <<"schema", Obj(<< <<"type", Str(ty)>> >>)>> >>)>> >>)>> >>)

ErrorResponses(what, i) ==
    CASE what = "rNo500" -> Obj(<< <<"400", ErrorResponse(i, "string")>> >>)
      [] what = "rExtra" -> Obj(<< <<"400", ErrorResponse(i, "string")>>,
                                   <<"404", ErrorResponse(i, "string")>>,
                                   <<"500", ErrorResponse(i, "string")>> >>)
      [] what = "rErrBody" -> Obj(<< <<"400", ErrorResponse(i, "string")>>,
                                     <<"500", ErrorResponse(i, "integer")>> >>)
      [] OTHER -> Obj(<< <<"400", ErrorResponse(i, "string")>>,
                         <<"500", ErrorResponse(i, "string")>> >>)

PathOf(pre, i) ==
    CASE pre = "badPath" -> <<"telescope", SubPaths[i]>>
      [] pre = "underscore" -> <<"{device_type}", "{device_number}", "telescope_connected">>
      [] pre = "upperCase" -> <<"Telescope", "{device_number}", SubPaths[1]>>
      [] pre = "samePath" -> <<"telescope", "{device_number}", SubPaths[1]>>
      [] pre = "deviceType" -> <<"{device_type}", "{device_number}", SubPaths[i]>>
      [] OTHER -> <<"telescope", "{device_number}", SubPaths[i]>>

PathParams(pre, i) ==
    LET dn(req) == Param("device_number", "path", req, PlainUint32, i)
        dt == Param("device_type", "path", Bool(TRUE), Obj(<< <<"type", Str("string")>> >>), i)
    IN  CASE pre = "noPathParams" -> <<>>
          [] pre = "optionalPath" -> <<dn(Undef)>>
          [] pre \in {"deviceType", "underscore"} -> <<dt, dn(Bool(TRUE))>>
          [] pre = "header" -> <<dn(Bool(TRUE)), Param("X-Trace", "header", Undef, PlainUint32, i)>>
          [] OTHER -> <<dn(Bool(TRUE))>>

\* the operation of a shape at position i; its inline schemas are the heap
\* cells base + 1 (request body) and base + 2 (response)
BuildOp(shape, i, base) ==
    LET rq == shape.req
        rs == shape.resp
        d == shape.d
        isGet == rq \in {"q0", "qInt", "qReq", "qNone", "qBody"}
        query == CASE rq \in {"q0", "qBody", "fQuery"} -> QueryParams("", Undef, i, d)
                   [] rq = "qInt" -> QueryParams("Int", Undef, i, d)
                   [] rq = "qReq" -> QueryParams("", Bool(TRUE), i, d)
                   [] OTHER -> <<>>
        reqObj == CASE rq \in {"f0", "qBody", "fQuery", "fJson", "fTwo"} -> FormSchema("", i, d)
                    [] rq = "fBool" -> FormSchema("Bool", i, d)
                    [] rq = "fInt" -> FormSchema("Int", i, d)
                    [] rq = "fArray" -> ArraySchema(i, d)
                    [] rq = "fBadEnv" ->
                         ObjectSchema(<< <<"ClientID", Int32Schema(i, NoDefault)>>,
                                         <<"ClientTransactionID", Uint32Schema(i, NoDefault)>> >>)
                    [] rq = "fNoCtid" ->
                         ObjectSchema(<< <<"ClientID", Uint32Schema(i, NoDefault)>> >>)
                    [] OTHER -> Obj(<<>>)
        body == CASE rq \in {"q0", "qInt", "qReq", "qNone", "fNone"} -> NoBody
                  [] rq = "fShared" -> Body(FormType, RefTo(SharedReq))
                  [] rq = "fRespShared" -> Body(FormType, RefTo(SharedResp))
                  [] rq = "fExtra" -> Body(FormType, RefTo(ExtraName("Request")))
                  [] rq = "fJson" -> Body(JsonType, Inline(base + 1))
                  [] rq = "fTwo" ->
                       [present |-> TRUE,
                        content |-> << <<FormType, Inline(base + 1)>>,
                                       <<JsonType, Inline(base + 1)>> >>]
                  [] OTHER -> Body(FormType, Inline(base + 1))
        respObj == CASE rs \in {"r0", "rNo500", "rExtra", "rErrBody", "rXml"} ->
                          ResponseSchema("", i, d)
                     [] rs = "rBool" -> ResponseSchema("Bool", i, d)
                     [] rs = "rInt" -> ResponseSchema("Int", i, d)
                     [] rs = "rArr" -> ResponseSchema("Arr", i, d)
                     [] rs = "rBadEnv" ->
                          ObjectSchema(<< <<"ClientTransactionID", Uint32Schema(i, NoDefault)>>,
                                          <<"ServerTransactionID", Uint32Schema(i, NoDefault)>>,
                                          <<"ErrorNumber", Uint32Schema(i, NoDefault)>>,
                                          <<"ErrorMessage", StringSchema(i)>> >>)
                     [] rs = "rArrBody" -> ArraySchema(i, d)
                     [] rs = "rNoMsg" ->
                          ObjectSchema(<< <<"ClientTransactionID", Uint32Schema(i, NoDefault)>>,
                                          <<"ServerTransactionID", Uint32Schema(i, NoDefault)>>,
                                          <<"ErrorNumber", Int32Schema(i, NoDefault)>> >>)
                     [] OTHER -> Obj(<<>>)
        ok == CASE rs = "rNo200" -> NoBody
                [] rs = "rShared" -> Body(JsonType, RefTo(SharedResp))
                [] rs = "rReqShared" -> Body(JsonType, RefTo(SharedReq))
                [] rs = "rXml" -> Body("application/xml", Inline(base + 2))
                [] OTHER -> Body(JsonType, Inline(base + 2))
    IN  [op |-> [path |-> PathOf(shape.pre, i),
                 method |-> IF isGet THEN "get" ELSE "put",
                 tags |-> IF shape.pre = "noTags" THEN 0 ELSE 1,
                 params |-> PathParams(shape.pre, i) \o query,
                 body |-> body, ok |-> ok, errors |-> ErrorResponses(rs, i),
                 xPath |-> <<>>, xRequest |-> <<>>, xRequestKind |-> ""],
         cells |-> <<reqObj, respObj>>]

Shape(rq, rs, pre, d) == [req |-> rq, resp |-> rs, pre |-> pre, d |-> d]

ValidReq == {"q0", "qInt", "qReq", "f0", "fBool", "fInt", "fShared"}
BadReq == {"qNone", "qBody", "fQuery", "fNone", "fJson", "fTwo", "fArray",
           "fBadEnv", "fNoCtid", "fRespShared"}
ValidResp == {"r0", "rBool", "rInt", "rArr", "rShared"}
BadResp == {"rNo200", "rNo500", "rExtra", "rErrBody", "rXml", "rArrBody", "rBadEnv",
            "rNoMsg", "rReqShared"}
Preambles == {"deviceType", "noTags", "badPath", "header", "noPathParams", "optionalPath"}

\* the shapes of the first operation of a document
AllShapes ==
    {Shape(rq, rs, "ok", NoDefault) : rq \in ValidReq, rs \in ValidResp}
    \cup {Shape(rq, rs, "ok", d) : rq \in {"qInt", "fInt"}, rs \in {"r0", "rInt"},
                                   d \in 0..MaxDefault}
    \cup {Shape("q0", rs, "ok", d) : rs \in {"rInt", "rArr"}, d \in 0..MaxDefault}
    \cup {Shape(rq, "r0", "ok", NoDefault) : rq \in BadReq}
    \cup {Shape("q0", rs, "ok", NoDefault) : rs \in BadResp}
    \cup {Shape("q0", "r0", pre, NoDefault) : pre \in Preambles}
    \cup {Shape("fShared", "rReqShared", "ok", NoDefault),
          Shape("fRespShared", "rShared", "ok", NoDefault)}

\* the shapes of the second operation, and of the operations after it
FollowShapes ==
    {Shape("qInt", "rInt", "ok", d) : d \in 0..MaxDefault}
    \cup {Shape("q0", "r0", "ok", NoDefault),
          Shape("fShared", "rShared", "ok", NoDefault),
          Shape("fShared", "rReqShared", "ok", NoDefault),
          Shape("qNone", "r0", "ok", NoDefault)}

TailShapes == {Shape("q0", "r0", "ok", NoDefault), Shape("qInt", "rInt", "ok", 0)}

\* entries the document's type table holds before the run
PlainX == Obj(<< <<"type", Str("integer")>>, <<"default", Num(0)>>,
                 <<"description", Str("x")>> >>)
PlainY(i) == ObjectSchema(<< <<"Name", StringSchema(i)>>, <<"Link", MakeRef(SharedReq)>> >>)

InitialObjects ==
    << FormSchema("Bool", 1, NoDefault), ResponseSchema("Bool", 1, NoDefault),
       PlainX, PlainY(1), PlainX, PlainY(2), PlainY(1) >>

FirstCell == Len(ExtraKinds)

InitialTable(alias) ==
    << <<SharedReq, Inline(FirstCell + 1)>>, <<SharedResp, Inline(FirstCell + 2)>>,
       <<<<"X1">>, Inline(FirstCell + 3)>>, <<<<"Y1">>, Inline(FirstCell + 4)>>,
       <<<<"X2">>, Inline(FirstCell + 5)>>, <<<<"Y2">>, Inline(FirstCell + 6)>>,
       <<<<"Y3">>, Inline(FirstCell + 7)>> >>
    \o (IF alias THEN << <<<<"AliasResp">>, RefTo(SharedResp)>> >> ELSE <<>>)

OpsBase == FirstCell + Len(InitialObjects)

\* the document of a list of shapes
DocOps(shapes) == [i \in 1..Len(shapes) |-> BuildOp(shapes[i], i, OpsBase + 2 * (i - 1)).op]
DocHeap(shapes) ==
    LET F[i \in 0..Len(shapes)] ==
          IF i = 0 THEN [k \in 1..Len(ExtraKinds) |-> ExtraSchema(ExtraKinds[k])]
                        \o InitialObjects
          ELSE F[i - 1] \o BuildOp(shapes[i], i, OpsBase + 2 * (i - 1)).cells
    IN  F[Len(shapes)]

ShapeListsOf[n \in 1..MaxOps] ==
    IF n = 1 THEN {<<s>> : s \in AllShapes}
    ELSE {Append(l, s) : l \in ShapeListsOf[n - 1],
                         s \in IF n = 2 THEN FollowShapes ELSE TailShapes}

ShapeLists == UNION {ShapeListsOf[n] : n \in 1..MaxOps}

PipeInit ==
    /\ \E shapes \in ShapeLists, alias \in BOOLEAN :
         /\ ops = DocOps(shapes)
         /\ heap = DocHeap(shapes)
         /\ table = InitialTable(alias)
    /\ groupedOps = <<>>
    /\ refReplacements = <<>>
    /\ groupCounts = <<>>
    /\ warnings = <<>>
    /\ phase = "first"
    /\ opIdx = 1
    /\ entries = <<>>
    /\ entryIdx = 1
    /\ error = ""
    /\ output = "none"
    /\ kindLog = <<>>
    /\ rerun = <<>>

KeyIdle == keyIn = <<>> /\ keyOut = <<>>
NamesIdle == devices = <<>> /\ lookup = <<>>
EnumIdle == apiPaths = <<>> /\ yielded = <<>> /\ cursor = <<1, 1>>

Init == PipeInit /\ KeyIdle /\ NamesIdle /\ EnumIdle

Next ==
    \/ ClassifyOp
    \/ StartSecondPass
    \/ SecondPassEntry
    \/ MergeAndReport
    \/ Render
    \/ Rustfmt
    \/ WriteFile

Spec == Init /\ [][Next]_vars

\* the script is one sequential run: a step that can be taken is taken
FairSpec == Spec /\ WF_vars(Next)

----------------------------------------------------------------------------
(* The first pass of the earlier revision (src/unnamed/part_000, lines     *)
(* 148-244): path parameters become a schema of their own, and the request *)
(* reference and its kind are written on the operation.                    *)

\* groupedParams[where]: the schema built from the parameters of one place
GroupedParams000(op, where) == QueryRequestParams(ParamsIn(op, where))

\* a classifier that calls every request a form
RequestKindAlwaysForm(method) == "Form"

\* kind: 'Query' in the get branch, kind: 'Form' in the other
RequestKindOf(method) == IF method = "get" THEN "Query" ELSE "Form"

\* lines 166-168: setXKind(pathParams, 'Path'); registerSchema(`${typeId}Path`, ...)
PathStage000(op, h, tbl) ==
    LET name == toPascalCase(OpId(op)) \o <<"Path">>
        pathParams == GroupedParams000(op, "path")
    IN  [heap |-> Append(h, setXKind(pathParams, "Path")),
         table |-> registerSchema(tbl, name, Len(h) + 1),
         ref |-> name,
         calls |-> <<[id |-> Len(h) + 1, kind |-> "Path", prev |-> KindOf(pathParams),
                      threw |-> FALSE]>>]

\* what one operation leaves, given the outcome of its stages
OperationOutcome000(op, p, rq, rs) ==
    IF rq.err # ""
    THEN [heap |-> rq.heap, table |-> rq.table, op |-> [op EXCEPT !.body = rq.owner],
          err |-> rq.err, calls |-> p.calls \o rq.calls]
    ELSE [heap |-> rs.heap, table |-> rs.table,
          op |-> [op EXCEPT !.body = rq.owner, !.ok = rs.owner, !.xPath = p.ref,
                            !.xRequest = rq.ref,
                            !.xRequestKind = RequestKindOf(op.method)],
          err |-> rs.err, calls |-> p.calls \o rq.calls \o rs.calls]

\* lines 148-244: the body of the loop for one operation
FirstPass000(op, h, tbl) ==
    IF \E i \in 1..Len(op.params) : op.params[i].in \notin {"path", "query"}
    THEN [heap |-> h, table |-> tbl, op |-> op, err |-> "Unexpected parameters",
          calls |-> <<>>]
    ELSE IF ParamsIn(op, "path") = <<>>
    THEN [heap |-> h, table |-> tbl, op |-> op, err |-> "Missing path parameters",
          calls |-> <<>>]
    ELSE The(UNION UNION {
           { { OperationOutcome000(op, p, rq, rs) :
                 rs \in {IF rq.err = "" THEN ResponseStage(op, rq.heap, rq.table)
                         ELSE rq} } :
               rq \in {RequestStage(op, p.heap, p.table)} } :
             p \in {PathStage000(op, h, tbl)} })

ClassifyOp000 ==
    /\ phase = "first"
    /\ opIdx <= Len(ops)
    /\ \E r \in {FirstPass000(ops[opIdx], heap, table)} :
         /\ heap' = r.heap
         /\ table' = r.table
         /\ ops' = [ops EXCEPT ![opIdx] = r.op]
         /\ kindLog' = kindLog \o r.calls
         /\ IF r.err # ""
            THEN phase' = "aborted" /\ error' = r.err /\ UNCHANGED opIdx
            ELSE opIdx' = opIdx + 1 /\ UNCHANGED <<phase, error>>
    /\ UNCHANGED <<groupedOps, refReplacements, groupCounts, warnings, entries,
                   entryIdx, output, rerun>>
    /\ UNCHANGED <<keyVars, nameVars, enumVars>>

Spec000 == Init /\ [][ClassifyOp000]_vars

----------------------------------------------------------------------------
(* The second pass once more, on the table a completed run has left *)

\* lines 292-382 from entry i of the snapshot on: the loop stops at the first
\* error, and the merge runs only after a loop that got through
RECURSIVE RunEntries(_, _, _)
RunEntries(st, snapshot, i) ==
    IF i > Len(snapshot)
    THEN [heap |-> st.heap, table |-> MergeExtras(st.table), repl |-> st.repl,
          counts |-> st.counts, err |-> "", at |-> i]
    ELSE LET r == SecondPassBody(st.heap, st.table, st.repl, st.counts, snapshot[i]) IN
         IF r.err # ""
         THEN [heap |-> r.heap, table |-> r.table, repl |-> r.repl,
               counts |-> r.counts, err |-> r.err, at |-> i]
         ELSE RunEntries(r, snapshot, i + 1)

\* the second pass over the table as the run left it; what it would leave is
\* kept in rerun, next to the state of the completed run
SecondPassAgain ==
    /\ phase = "done"
    /\ rerun = <<>>
    /\ rerun' = RunEntries([heap |-> heap, table |-> table, repl |-> refReplacements,
                            counts |-> groupCounts], table, 1)
    /\ UNCHANGED <<ops, heap, table, groupedOps, refReplacements, groupCounts,
                   warnings, phase, opIdx, entries, entryIdx, error, output, kindLog>>
    /\ UNCHANGED <<keyVars, nameVars, enumVars>>

NextAgain == Next \/ SecondPassAgain

SpecAgain == Init /\ [][NextAgain]_vars

----------------------------------------------------------------------------
(* The dedup key as a function: pairs of schemas that differ in a known way *)

MaxDepth == 2

\* v with every description at nesting depth >= from replaced by text
RECURSIVE Redescribe(_, _, _)
Redescribe(v, from, text) ==
    CASE v.t = "obj" ->
           Obj([i \in 1..Len(v.kv) |->
                  IF v.kv[i][1] = "description" /\ v.kv[i][2].t = "str"
                  THEN <<"description", IF from <= 0 THEN Str(text) ELSE v.kv[i][2]>>
                  ELSE <<v.kv[i][1], Redescribe(v.kv[i][2], from - 1, text)>>])
      [] v.t = "arr" -> Arr([i \in 1..Len(v.xs) |-> Redescribe(v.xs[i], from - 1, text)])
      [] OTHER -> v

Containers == {"Response", "Form", "Query", "QueryRequired"}

StudySchema(container, what, d) ==
    CASE container = "Response" -> setXKind(ResponseSchema(what, 1, d), "Response")
      [] container = "Form" -> setXKind(FormSchema(what, 1, d), "Request")
      [] container = "Query" ->
           setXKind(QueryRequestParams(QueryParams(what, Undef, 1, d)), "Request")
      [] OTHER ->
           setXKind(QueryRequestParams(QueryParams(what, Bool(TRUE), 1, d)), "Request")

\* the payloads a container is studied with (a query has no array payload here)
Payloads(c) == IF c \in {"Query", "QueryRequired"} THEN {"", "Int"}
               ELSE {"", "Bool", "Int", "Arr"}

StudyCases(whats) == {cw \in Containers \X whats : cw[2] \in Payloads(cw[1])}

\* the same schema with other description texts from some depth on
DescriptionPairs ==
    {[how |-> "description", a |-> StudySchema(cw[1], cw[2], d),
      b |-> Redescribe(StudySchema(cw[1], cw[2], d), k, "another text"),
      da |-> d, db |-> d] :
       cw \in StudyCases({"", "Bool", "Int", "Arr"}), d \in Defaults, k \in 0..MaxDepth}

\* the same schema with two numeric defaults of the payload
DefaultPairs ==
    {[how |-> "default", a |-> StudySchema(cw[1], cw[2], da),
      b |-> StudySchema(cw[1], cw[2], db), da |-> da, db |-> db] :
       cw \in StudyCases({"Int", "Arr"}), da \in Defaults, db \in Defaults}

KeyInit ==
    /\ \E pair \in DescriptionPairs \cup DefaultPairs :
         keyIn = [how |-> pair.how, a |-> pair.a, b |-> pair.b, da |-> pair.da,
                  db |-> pair.db, clean |-> FALSE]
    /\ keyOut = <<>>

PipeIdle ==
    /\ ops = <<>> /\ heap = <<>> /\ table = <<>> /\ groupedOps = <<>>
    /\ refReplacements = <<>> /\ groupCounts = <<>> /\ warnings = <<>>
    /\ phase = "idle" /\ opIdx = 1 /\ entries = <<>> /\ entryIdx = 1
    /\ error = "" /\ output = "none" /\ kindLog = <<>> /\ rerun = <<>>

\* line 294: cleanupSchema(schema), on both schemas of the pair
CanonicalizePair ==
    /\ keyIn # <<>>
    /\ ~keyIn.clean
    /\ keyIn' = [keyIn EXCEPT !.a = cleanupSchema(keyIn.a), !.b = cleanupSchema(keyIn.b),
                              !.clean = TRUE]
    /\ UNCHANGED <<keyOut, pipeVars, nameVars, enumVars>>

\* lines 367 and 376: jsonWithoutOptFields(schema)
KeyPair ==
    /\ keyIn # <<>>
    /\ keyIn.clean
    /\ keyOut = <<>>
    /\ keyOut' = <<jsonWithoutOptFields(keyIn.a), jsonWithoutOptFields(keyIn.b)>>
    /\ UNCHANGED <<keyIn, pipeVars, nameVars, enumVars>>

KeyNext == CanonicalizePair \/ KeyPair

InitKey == KeyInit /\ PipeIdle /\ NamesIdle /\ EnumIdle

SpecKey == InitKey /\ [][KeyNext]_vars

----------------------------------------------------------------------------
(* The canonicalizer on integer schemas: formats and bounds *)

\* format, minimum and maximum as documents declare them (Undef: not declared)
RangeFormats == {Undef, Str("int32"), Str("uint32"), Str("int64")}
RangeMinimums == {Undef, Int32Min, Uint32Min, Num(1)}
RangeMaximums == {Undef, Int32Max, Uint32Max, Num(100)}
RangeDefaults == {Undef, Num(0), Num(1)}
RangeWraps == {"", "items", "property"}

Opt(k, v) == IF v = Undef THEN <<>> ELSE << <<k, v>> >>

IntegerSchema(format, minimum, maximum, default) ==
    Obj(<< <<"type", Str("integer")>> >> \o Opt("format", format)
        \o Opt("minimum", minimum) \o Opt("maximum", maximum) \o Opt("default", default))

\* the integer schema on its own, as the items of an array, or as a property
Wrap(wrap, schema) ==
    CASE wrap = "items" -> Obj(<< <<"type", Str("array")>>, <<"items", schema>> >>)
      [] wrap = "property" ->
           Obj(<< <<"type", Str("object")>>,
                  <<"properties", Obj(<< <<"Value", schema>> >>)>> >>)
      [] OTHER -> schema

Unwrap(wrap, schema) ==
    CASE wrap = "items" -> Get(schema, "items")
      [] wrap = "property" -> Get(Get(schema, "properties"), "Value")
      [] OTHER -> schema

RangeInit ==
    /\ \E format \in RangeFormats, minimum \in RangeMinimums, maximum \in RangeMaximums,
          default \in RangeDefaults, wrap \in RangeWraps :
         \E schema \in {Wrap(wrap, IntegerSchema(format, minimum, maximum, default))} :
           keyIn = [how |-> "range", wrap |-> wrap, orig |-> schema, a |-> schema,
                    b |-> schema, da |-> NoDefault, db |-> NoDefault, clean |-> FALSE]
    /\ keyOut = <<>>

InitRange == RangeInit /\ PipeIdle /\ NamesIdle /\ EnumIdle

SpecRange == InitRange /\ [][KeyNext]_vars

----------------------------------------------------------------------------
(* The stripper on request schemas: what the two client fields may declare *)

\* a client field as a document declares it (Undef: the field is missing)
ClientFields ==
    { Undef,
      IntegerSchema(Str("uint32"), Undef, Undef, Undef),
      IntegerSchema(Str("uint32"), Uint32Min, Uint32Max, Undef),
      IntegerSchema(Str("uint32"), Undef, Undef, Num(0)),
      IntegerSchema(Str("uint32"), Undef, Undef, Num(1)),
      Put(IntegerSchema(Str("uint32"), Undef, Undef, Undef), "description", Str("text a")),
      IntegerSchema(Str("uint32"), Num(1), Undef, Undef),
      IntegerSchema(Str("int32"), Undef, Undef, Undef),
      IntegerSchema(Undef, Undef, Undef, Undef),
      Obj(<< <<"type", Str("string")>>, <<"format", Str("uint32")>> >>) }

StripKinds == {"Request", "Path", ""}
StripPayloads == {"", "Bool", "Int"}

RequestStudySchema(clientID, clientTransactionID, what, kind) ==
    LET schema == ObjectSchema(Opt("ClientID", clientID)
                               \o Opt("ClientTransactionID", clientTransactionID)
                               \o Payload(what, 1, 0))
    IN  IF kind = "" THEN schema ELSE setXKind(schema, kind)

StripInit ==
    /\ \E clientID \in ClientFields, clientTransactionID \in ClientFields,
          what \in StripPayloads, kind \in StripKinds :
         \E schema \in {RequestStudySchema(clientID, clientTransactionID, what, kind)} :
           keyIn = [how |-> "strip", wrap |-> "", orig |-> schema, a |-> schema,
                    b |-> schema, da |-> NoDefault, db |-> NoDefault, clean |-> FALSE]
    /\ keyOut = <<>>

\* lines 296-364: switch (kind) on the canonicalized schema
StripCanonical ==
    /\ keyIn # <<>>
    /\ keyIn.clean
    /\ keyOut = <<>>
    /\ keyOut' = <<StripEnvelope(keyIn.a)>>
    /\ UNCHANGED <<keyIn, pipeVars, nameVars, enumVars>>

StripNext == CanonicalizePair \/ StripCanonical

InitStrip == StripInit /\ PipeIdle /\ NamesIdle /\ EnumIdle

SpecStrip == InitStrip /\ [][StripNext]_vars

----------------------------------------------------------------------------
(* The canonical names (src/unnamed/part_001) *)

MaxNames == 3

\* the device and method names the XML documentation gives, and the generic group
DeviceNames == {"Telescope", "Camera", "{device_type}"}
MethodNames == {"Connected", "SlewToTarget"}

\* the members every object literal {} inherits from Object.prototype
ObjectPrototypeKeys == {"constructor", "toString", "__proto__"}

\* the keys lookups are made with
LookupPaths == {"telescope", "Telescope", "camera", "focuser", "{device_type}",
                "constructor"}
LookupSubPaths == {"connected", "Connected", "slewtotarget", "park", "constructor",
                   "__proto__"}

\* String.prototype.toLowerCase on the names above
toLowerCase(name) ==
    CASE name = "Telescope" -> "telescope"
      [] name = "Camera" -> "camera"
      [] name = "Connected" -> "connected"
      [] name = "SlewToTarget" -> "slewtotarget"
      [] OTHER -> name

\* new CanonicalDevice(name)
CanonicalDevice(name) == [t |-> "device", name |-> name, methods |-> <<>>]

\* an inherited member: a function or an object, never undefined
Inherited(key) == [t |-> "inherited", key |-> key]

OwnKeys(record) == {record[i][1] : i \in 1..Len(record)}

\* record[key] on an object literal: an own property, else one of the prototype
PropGet(record, key) ==
    IF key \in OwnKeys(record)
    THEN record[CHOOSE i \in 1..Len(record) : record[i][1] = key][2]
    ELSE IF key \in ObjectPrototypeKeys THEN Inherited(key)
    ELSE Undef

\* record[key] = value
PropSet(record, key, value) ==
    IF key \in OwnKeys(record)
    THEN Tuple([i \in 1..Len(record) |->
                  IF record[i][1] = key THEN <<key, value>> ELSE record[i]])
    ELSE Append(record, <<key, value>>)

NoError == [kind |-> "none", text |-> <<>>]
AssertionError(text) == [kind |-> "AssertionError", text |-> text]
TypeError(text) == [kind |-> "TypeError", text |-> text]

\* CanonicalDevices.registerDevice: this._devices[name.toLowerCase()] ??= ...
registerDevice(devs, name) ==
    IF PropGet(devs, toLowerCase(name)) # Undef THEN devs
    ELSE PropSet(devs, toLowerCase(name), CanonicalDevice(name))

\* CanonicalDevice.registerMethod: this._methods[method.toLowerCase()] = method
registerMethod(device, method) ==
    [device EXCEPT !.methods = PropSet(device.methods, toLowerCase(method), Str(method))]

\* CanonicalDevices.getDevice: the device, or the assertion that failed
getDevice(devs, path) ==
    LET device == PropGet(devs, path) IN
    IF device = Undef
    THEN [result |-> Undef,
          error |-> AssertionError(<<"Couldn't find canonical device for", path>>)]
    ELSE [result |-> device, error |-> NoError]

\* CanonicalDevice.getMethod: the name, or the assertion that failed
getMethod(device, subPath) ==
    LET name == PropGet(device.methods, subPath) IN
    IF name = Undef
    THEN [result |-> Undef,
          error |-> AssertionError(<<"Couldn't find canonical name for", device.name,
                                     "::", subPath>>)]
    ELSE [result |-> name, error |-> NoError]

RegisteredMethods == 
    LET F[i \in 0..Len(devices)] ==
          IF i = 0 THEN 0 ELSE F[i - 1] + Len(devices[i][2].methods)
    IN  F[Len(devices)]

\* lines 45 and 48-51: canonical.registerDevice(device).registerMethod(method)
RegisterCanonical ==
    /\ RegisteredMethods < MaxNames
    /\ \E device \in DeviceNames, method \in MethodNames :
         LET devs == registerDevice(devices, device)
             key == toLowerCase(device)
         IN  devices' = PropSet(devs, key, registerMethod(PropGet(devs, key), method))
    /\ UNCHANGED <<lookup, pipeVars, keyVars, enumVars>>

\* canonical.getDevice(path)
LookupDevice ==
    /\ \E path \in LookupPaths :
         LET r == getDevice(devices, path) IN
         lookup' = [op |-> "getDevice", path |-> path, subPath |-> "",
                    result |-> r.result, error |-> r.error]
    /\ UNCHANGED <<devices, pipeVars, keyVars, enumVars>>

\* canonical.getDevice(path).getMethod(subPath)
LookupMethod ==
    /\ \E path \in LookupPaths, subPath \in LookupSubPaths :
         LET d == getDevice(devices, path)
             r == IF d.error # NoError THEN d
                  ELSE IF d.result.t # "device"
                  THEN [result |-> Undef,
                        error |-> TypeError(<<"getMethod is not a function">>)]
                  ELSE getMethod(d.result, subPath)
         IN  lookup' = [op |-> "getMethod", path |-> path, subPath |-> subPath,
                        result |-> r.result, error |-> r.error]
    /\ UNCHANGED <<devices, pipeVars, keyVars, enumVars>>

NamesNext == RegisterCanonical \/ LookupDevice \/ LookupMethod

InitNames == NamesIdle /\ PipeIdle /\ KeyIdle /\ EnumIdle

SpecNames == InitNames /\ [][NamesNext]_vars

----------------------------------------------------------------------------
(* Documents whose operations, or whose type table, lead to the same names *)

\* names the type table of the document may hold before the run
DeclaredNames ==
    { <<>>, <<"get", "telescope", "connected", "Request">>,
      <<"put", "telescope", "connected", "Response">>, <<"Position">>,
      ExtraName("Request") }

\* the first operation is on /telescope/{device_number}/connected; its body
\* may refer to the entry the document declares under the name EmptyRequest
FirstShapes(declared) ==
    {Shape(rq, "r0", "ok", NoDefault) :
       rq \in {"q0", "f0", "fShared"}
              \cup IF declared = ExtraName("Request") THEN {"fExtra"} ELSE {}}

\* the second one is on another path, or on the same path with another method
SecondShapes(first) ==
    {Shape(rq, rs, pre, NoDefault) :
       rq \in {"q0", "f0"}, rs \in {"r0", "rBool"},
       pre \in {"ok", "underscore", "upperCase"}}
    \cup {Shape(rq, "r0", "samePath", NoDefault) :
            rq \in IF first.req = "q0" THEN {"f0"} ELSE {"q0"}}

\* the declared entry: an integer schema, or under the name EmptyRequest a
\* form body that has the two envelope fields and nothing else
DeclaredEntry(declared, h) ==
    IF declared = <<>> THEN <<>>
    ELSE IF declared = ExtraName("Request") THEN << <<declared, Inline(Len(h))>> >>
    ELSE << <<declared, Inline(FirstCell + 3)>> >>

PipeInitSameNames ==
    /\ \E declared \in DeclaredNames :
         \E first \in FirstShapes(declared) :
           \E second \in SecondShapes(first) :
             /\ ops = DocOps(<<first, second>>)
             /\ heap = DocHeap(<<first, second>>) \o <<FormSchema("", 1, NoDefault)>>
             /\ table = InitialTable(FALSE) \o DeclaredEntry(declared, heap)
    /\ groupedOps = <<>>
    /\ refReplacements = <<>>
    /\ groupCounts = <<>>
    /\ warnings = <<>>
    /\ phase = "first"
    /\ opIdx = 1
    /\ entries = <<>>
    /\ entryIdx = 1
    /\ error = ""
    /\ output = "none"
    /\ kindLog = <<>>
    /\ rerun = <<>>

InitSameNames == PipeInitSameNames /\ KeyIdle /\ NamesIdle /\ EnumIdle

SpecSameNames == InitSameNames /\ [][Next]_vars

----------------------------------------------------------------------------
(* The enumerator: ops() over api.paths (index.ts 17-38) *)

MaxPaths == 2

\* Object.values(OpenAPIV3.HttpMethods), in the order of the enum
HttpMethods == <<"get", "put", "post", "delete", "options", "head", "patch", "trace">>

\* paths of a document, each as path.split('/').slice(1)
DocPaths ==
    { <<"telescope", "{device_number}", "connected">>,
      <<"{device_type}", "{device_number}", "connected">>,
      <<"telescope", "connected">>,
      <<"management", "v1", "{id}">>,
      <<"{device_type}">>,
      <<"telescope", "", "connected">> }

\* the keys of a path item that hold an object; "parameters" and "summary"
\* are keys of a path item that name no method
DocMethodKeys ==
    { {}, {"get"}, {"put"}, {"get", "put"}, {"parameters"},
      {"trace", "get", "summary"} }

PathItem(path, keys) == [path |-> path, methods |-> keys]

\* methods[method]: the operation object, or undefined
OperationOf(item, method) == IF method \in item.methods THEN Str("operation") ELSE Undef

EnumInit ==
    /\ \E p1 \in DocPaths, k1 \in DocMethodKeys :
         \/ apiPaths = <<PathItem(p1, k1)>>
         \/ \E p2 \in DocPaths \ {p1}, k2 \in DocMethodKeys :
              MaxPaths >= 2 /\ apiPaths = <<PathItem(p1, k1), PathItem(p2, k2)>>
    /\ yielded = <<>>
    /\ cursor = <<1, 1>>

\* lines 29 and 31: the next method of the inner loop, else the next path
Advance(c) == IF c[2] < Len(HttpMethods) THEN <<c[1], c[2] + 1>> ELSE <<c[1] + 1, 1>>

\* lines 32-35: the operation is there, and is yielded
YieldOperation ==
    /\ cursor[1] <= Len(apiPaths)
    /\ \E item \in {apiPaths[cursor[1]]}, method \in {HttpMethods[cursor[2]]} :
         /\ Truthy(OperationOf(item, method))
         /\ yielded' = Append(yielded,
                [path |-> item.path, method |-> method,
                 id |-> OpId([method |-> method, path |-> item.path])])
    /\ cursor' = Advance(cursor)
    /\ UNCHANGED <<apiPaths, pipeVars, keyVars, nameVars>>

\* line 33: no operation under this method
SkipMethod ==
    /\ cursor[1] <= Len(apiPaths)
    /\ ~Truthy(OperationOf(apiPaths[cursor[1]], HttpMethods[cursor[2]]))
    /\ cursor' = Advance(cursor)
    /\ UNCHANGED <<apiPaths, yielded, pipeVars, keyVars, nameVars>>

EnumNext == YieldOperation \/ SkipMethod

InitOps == EnumInit /\ PipeIdle /\ KeyIdle /\ NamesIdle

SpecOps == InitOps /\ [][EnumNext]_vars

----------------------------------------------------------------------------
(* Properties *)

\* the second pass and the merge have run
Finished == output # "none" \/ phase = "render"

\* the schema a table entry designates
EntrySchema(e) == heap[resolveMaybeRef(table, e[2])]

HasEnvelopeField(schema) ==
    /\ IsObj(Get(schema, "properties"))
    /\ KeySet(Get(schema, "properties")) \cap Range(ResponseEnvelope) # {}

\* C1: once the second pass and the merge are over, no schema of the type
\* table that is tagged Response has ClientTransactionID, ServerTransactionID,
\* ErrorNumber or ErrorMessage among its properties.
EnvelopeInvariant ==
    Finished =>
      \A i \in 1..Len(table) :
        ~resolveThrows(table, table[i][2]) =>
          (KindOf(EntrySchema(table[i])) = Str("Response")
             => ~HasEnvelopeField(EntrySchema(table[i])))

\* a finished run whose table holds a classifier-registered response with a
\* payload left, a pre-existing entry tagged Response through a reference, and
\* the extra schema EmptyResponse
EnvelopeWitness ==
    /\ Finished
    /\ SharedResp \in TableNames(table)
    /\ KindOf(heap[refsGet(table, SharedResp)]) = Str("Response")
    /\ Has(Get(heap[refsGet(table, SharedResp)], "properties"), "Value")
    /\ \E i \in 1..Len(table) :
         /\ table[i][1][Len(table[i][1])] = "Response"
         /\ KindOf(EntrySchema(table[i])) = Str("Response")
         /\ Has(Get(EntrySchema(table[i]), "properties"), "Value")
    /\ ExtraName("Response") \in TableNames(table)

\* the kind tags never change once set
KindsStable ==
    \A id \in 1..Len(heap) :
      Truthy(KindOf(heap[id])) => KindOf(heap'[id]) = KindOf(heap[id])

\* every setXKind call so far: on another kind it threw, the run is aborted and
\* the tag is the old one; otherwise it returned and the tag is the kind asked for
KindCallsRight ==
    \A i \in 1..Len(kindLog) :
      LET c == kindLog[i] IN
      IF Truthy(c.prev) /\ c.prev # Str(c.kind)
      THEN /\ c.threw
           /\ i = Len(kindLog)
           /\ phase = "aborted"
           /\ error = "Conflicting x-kind"
           /\ KindOf(heap[c.id]) = c.prev
      ELSE /\ ~c.threw
           /\ KindOf(heap[c.id]) = Str(c.kind)

\* C2: no schema ever holds two different kind tags: a tag, once set, never
\* changes; setXKind with another kind than the one set is a fatal error that
\* leaves the tag alone, and setXKind with the same kind succeeds.
KindExclusivity == [][KindsStable]_vars /\ []KindCallsRight

\* the run that was aborted by tagging a shared schema with a second kind,
\* after an earlier operation tagged the same schema again with the same kind
KindWitness ==
    /\ phase = "aborted"
    /\ \E i \in 1..Len(kindLog) :
         kindLog[i].threw /\ kindLog[i].prev = Str("Request") /\ kindLog[i].kind = "Response"
    /\ \E i \in 1..Len(kindLog) :
         ~kindLog[i].threw /\ kindLog[i].prev = Str(kindLog[i].kind)

\* the dedup key of the request schema of the i-th accepted operation, taken
\* through the table as it was when the second pass began
RequestKey(i) == jsonWithoutOptFields(heap[refsGet(entries, groupedOps[i].request)])

Replaced(name) == \E k \in 1..Len(refReplacements) : refReplacements[k][1] = name

\* the entry a reference designates, through the replacement map
Designated(name) ==
    IF Replaced(name)
    THEN refReplacements[CHOOSE k \in 1..Len(refReplacements) :
                           refReplacements[k][1] = name][2]
    ELSE name

CountOf(key) ==
    IF \E k \in 1..Len(groupCounts) : groupCounts[k][1] = key
    THEN groupCounts[CHOOSE k \in 1..Len(groupCounts) : groupCounts[k][1] = key][2]
    ELSE 0

ExtraKeyNames(key) ==
    {ExtraName(ExtraKinds[k]) : k \in {k \in 1..Len(ExtraKinds) :
        jsonWithoutOptFields(ExtraSchema(ExtraKinds[k])) = key}}

\* C3 as stated: two operations whose request schemas have the same shape end
\* up designating one and the same entry, extra shape or not.
DedupMergesEveryShape ==
    Finished =>
      \A i, j \in 1..Len(groupedOps) :
        (i < j /\ RequestKey(i) = RequestKey(j))
          => Designated(groupedOps[i].request) = Designated(groupedOps[j].request)

\* C3 amended: two operations registered under different names whose request
\* schemas have the same dedup key are merged exactly when that key is the key
\* of an extra schema: both references are then replaced by that extra schema,
\* which is in the table.  Otherwise both stay in the table as two entries
\* with two objects, unreplaced, and the key is counted at least twice.
DedupMergesExtraShapes ==
    Finished =>
      \A i, j \in 1..Len(groupedOps) :
        LET ri == groupedOps[i].request
            rj == groupedOps[j].request
        IN  (i < j /\ ri # rj /\ RequestKey(i) = RequestKey(j)) =>
              IF ExtraKeyNames(RequestKey(i)) # {}
              THEN /\ Replaced(ri) /\ Replaced(rj)
                   /\ Designated(ri) = Designated(rj)
                   /\ Designated(ri) \in ExtraKeyNames(RequestKey(i))
                   /\ Designated(ri) \in TableNames(table)
                   /\ {ri, rj} \cap TableNames(table) = {}
              ELSE /\ ~Replaced(ri) /\ ~Replaced(rj)
                   /\ {ri, rj} \subseteq TableNames(table)
                   /\ refsGet(table, ri) # refsGet(table, rj)
                   /\ CountOf(RequestKey(i)) >= 2

\* a finished run with two operations whose requests, registered under two
\* names, both reduce to the empty request shape
DedupWitness ==
    /\ Finished
    /\ \E i, j \in 1..Len(groupedOps) :
         /\ i < j
         /\ groupedOps[i].request # groupedOps[j].request
         /\ RequestKey(i) = RequestKey(j)
         /\ Designated(groupedOps[i].request) = ExtraName("Request")
         /\ Designated(groupedOps[j].request) = ExtraName("Request")

Elided(d) == d \in {NoDefault, 0}

\* C4: the dedup key (jsonWithoutOptFields after cleanupSchema) is the same for
\* two schemas that differ only in description texts, at whatever depth, and
\* differs for two schemas that differ only in a numeric default, unless both
\* defaults are elided (none or zero).
KeyCorrect ==
    keyOut # <<>> =>
      /\ keyIn.how = "description" => keyOut[1] = keyOut[2]
      /\ (keyIn.how = "default" /\ keyIn.da # keyIn.db
           /\ ~(Elided(keyIn.da) /\ Elided(keyIn.db)))
          => keyOut[1] # keyOut[2]

\* the keys of two schemas with a required list and a nested payload that differ
\* in a nested description only, the zero default having been elided
KeyWitness ==
    /\ keyOut # <<>>
    /\ keyIn.how = "description"
    /\ keyIn.da = 0
    /\ keyIn.a # keyIn.b
    /\ Has(keyIn.a, "required")
    /\ Get(keyIn.a, "description") = Get(keyIn.b, "description")
    /\ keyOut[1] = keyOut[2]

\* C5 as stated: the second pass run again on the table of a completed run
\* completes, changes no schema, deletes no entry and adds no replacement.
SecondRunIsNoOp ==
    rerun # <<>> =>
      /\ rerun.err = ""
      /\ rerun.heap = heap
      /\ rerun.table = table
      /\ rerun.repl = refReplacements

\* the entries of the completed table that are tagged Request or Response
TaggedEntries ==
    {i \in 1..Len(table) :
       KindOf(EntrySchema(table[i])) \in {Str("Request"), Str("Response")}}

FirstTagged == CHOOSE i \in TaggedEntries : \A j \in TaggedEntries : i <= j

IndexOf(name) == CHOOSE i \in 1..Len(table) : table[i][1] = name

\* C5 amended: the second pass run again on the table of a completed run never
\* completes.  It changes no schema (the canonicalizer leaves every schema of
\* the table as it is), but it stops with a fatal error at the first entry that
\* is tagged Request or Response, EmptyRequest at the latest, because the
\* envelope fields it asserts are gone; and when EmptyPath comes before that
\* entry, EmptyPath is deleted from the table and replaced by itself.
SecondRunStops ==
    rerun # <<>> =>
      /\ \A i \in 1..Len(table) :
           cleanupSchema(EntrySchema(table[i])) = EntrySchema(table[i])
      /\ rerun.heap = heap
      /\ ExtraName("Request") \in TableNames(table)
      /\ TaggedEntries # {}
      /\ rerun.at = FirstTagged
      /\ rerun.err = IF KindOf(EntrySchema(table[FirstTagged])) = Str("Request")
                     THEN "TypeError: ClientID is undefined"
                     ELSE "Missing response properties"
      /\ IF IndexOf(ExtraName("Path")) < FirstTagged
         THEN /\ rerun.table = DeleteEntry(table, ExtraName("Path"))
              /\ rerun.repl = SetReplacement(refReplacements, ExtraName("Path"),
                                             ExtraName("Path"))
         ELSE /\ rerun.table = table
              /\ rerun.repl = refReplacements

\* a second run that got past untagged entries and EmptyPath before it stopped
SecondRunWitness ==
    /\ rerun # <<>>
    /\ rerun.at > 1
    /\ rerun.err = "TypeError: ClientID is undefined"
    /\ rerun.table # table
    /\ rerun.heap = heap

\* the dedup key of the i-th entry the second pass visited
VisitedKey(i) == jsonWithoutOptFields(heap[resolveMaybeRef(entries, entries[i][2])])

AbortStep ==
    phase' = "aborted" =>
      /\ phase # "aborted"
      /\ opIdx' = opIdx /\ entryIdx' = entryIdx
      /\ output' = output /\ warnings' = warnings

\* a fatal error of either pass leaves nothing rendered or written
NothingAfterAbort ==
    /\ phase = "aborted" <=> error # ""
    /\ (error # "" /\ error # "rustfmt failed")
         => (output = "none" /\ warnings = <<>> /\ phase = "aborted")

\* one diagnostic per shape counted more than once, by non-increasing count
DiagnosticsRight ==
    IF Finished
    THEN /\ \A k \in 1..Len(groupCounts) :
              Cardinality({w \in 1..Len(warnings) : warnings[w][1] = groupCounts[k][1]})
                = (IF groupCounts[k][2] > 1 THEN 1 ELSE 0)
         /\ \A w \in 1..Len(warnings) :
              \E k \in 1..Len(groupCounts) : groupCounts[k] = warnings[w]
         /\ \A v, w \in 1..Len(warnings) : v < w => warnings[v][2] >= warnings[w][2]
    ELSE warnings = <<>>

\* C7: the run is fail-fast with two outcomes.  No step is taken after an
\* abort; the abort of a pass leaves the operation or entry index where it
\* was and nothing rendered or written; every run ends aborted or rendered,
\* and a run of two passes without a fatal error is rendered; shapes counted
\* more than once give one diagnostic each, by non-increasing count, and never
\* stand in the way of the output.
FailFast ==
    /\ [][phase # "aborted" /\ AbortStep]_vars
    /\ []NothingAfterAbort
    /\ []DiagnosticsRight
    /\ []((phase = "second" /\ entryIdx > Len(entries)) => <>(output = "rendered"))
    /\ <>(phase = "aborted" \/ output # "none")

\* a written output of a run that reported two duplicated shapes, the more
\* frequent one first although it was counted later
FailFastWitness ==
    /\ output = "written"
    /\ error = ""
    /\ Len(warnings) = 2
    /\ warnings[1][2] > warnings[2][2]
    /\ \E i, j \in 1..Len(groupCounts) :
         i < j /\ groupCounts[i] = warnings[2] /\ groupCounts[j] = warnings[1]

\* the request schema an operation of the earlier revision refers to
RequestSchema000(op) == heap[refsGet(table, op.xRequest)]

\* an operation whose request is one of the two accepted combinations
RequestAccepted(op) ==
    LET query == ParamsIn(op, "query") IN
    /\ op.xRequestKind \in {"Query", "Form"}
    /\ op.xRequestKind = "Query" <=> op.method = "get"
    /\ op.method = "get" => (query # <<>> /\ ~op.body.present)
    /\ op.method # "get" =>
         /\ query = <<>>
         /\ op.body.present
         /\ Len(op.body.content) = 1
         /\ op.body.content[1][1] = "application/x-www-form-urlencoded"
         /\ op.body.content[1][2] = RefTo(op.xRequest)
         /\ Get(RequestSchema000(op), "type") = Str("object")
    /\ KindOf(RequestSchema000(op)) = Str("Request")

\* the request assertion that stopped the run, and the combination it names
RequestErrorRight ==
    LET op == ops[opIdx]
        query == ParamsIn(op, "query")
    IN  /\ error = "Missing query parameters" => (op.method = "get" /\ query = <<>>)
        /\ error = "Unexpected request body" => (op.method = "get" /\ op.body.present)
        /\ error = "Unexpected query parameters" => (op.method # "get" /\ query # <<>>)
        /\ error = "Missing request body" => (op.method # "get" /\ ~op.body.present)
        /\ op.xRequestKind = "" =>
             \/ error \in {"Unexpected parameters", "Missing path parameters",
                           "Missing query parameters", "Unexpected request body",
                           "Unexpected query parameters", "Missing request body",
                           "Unexpected content types", "Content is not an object",
                           "Conflicting x-kind"}

\* C8: every operation the classifier has accepted has requestKind Query
\* exactly when its method is get; a get has query parameters and no body, any
\* other method has no query parameters and a body whose only content type is
\* application/x-www-form-urlencoded with an object schema; the request
\* schema is tagged Request; and a run stopped by a request assertion was
\* stopped by an operation that is another combination.
RequestClassification ==
    /\ \A i \in 1..(opIdx - 1) : RequestAccepted(ops[i])
    /\ phase = "aborted" => RequestErrorRight

\* two accepted operations, a get classified Query and a put classified Form
RequestClassificationWitness ==
    /\ opIdx = 3
    /\ ops[1].xRequestKind = "Query" /\ ops[1].method = "get"
    /\ ops[2].xRequestKind = "Form" /\ ops[2].method = "put"
    /\ KindOf(RequestSchema000(ops[2])) = Str("Request")

\* the table the names of the first pass are looked up in: the snapshot, once
\* the second pass has begun to delete entries
NamesOfFirstPass == IF entries = <<>> THEN table ELSE entries

\* the error responses are the statuses 400 and 500, each a text/plain string
\* body once the descriptions are taken out
ErrorsAsRequired(op) ==
    /\ KeySet(op.errors) = {"400", "500"}
    /\ \A k \in KeySet(op.errors) :
         jsonWithoutOptFields(Get(op.errors, k)) = errorResponseShape

SuccessAsRequired(op) ==
    /\ op.ok.present
    /\ Len(op.ok.content) = 1
    /\ op.ok.content[1][1] = "application/json"
    /\ op.ok.content[1][2].ref
    /\ Get(heap[refsGet(NamesOfFirstPass, op.ok.content[1][2].name)], "type")
         = Str("object")

\* C9: every operation the classifier has accepted has a 200 response whose
\* content is one application/json entry with an object schema, and its other
\* responses are the statuses 400 and 500, each equal to a text/plain string
\* body once descriptions are removed; and a run stopped by a response
\* assertion was stopped by an operation that is otherwise.
ResponseClassification ==
    /\ \A i \in 1..Len(groupedOps) : SuccessAsRequired(ops[i]) /\ ErrorsAsRequired(ops[i])
    /\ Len(groupedOps) = opIdx - 1
    /\ (phase = "aborted" /\ entries = <<>>) =>
         LET op == ops[opIdx] IN
         /\ error = "Missing successful response" => ~op.ok.present
         /\ error = "Unexpected error responses" =>
              (op.ok.present /\ ~ErrorsAsRequired(op))
         /\ (PreambleError(op) = "" /\ ~op.ok.present
              /\ error \notin {"Missing query parameters", "Unexpected request body",
                                "Unexpected query parameters", "Missing request body",
                                "Unexpected content types", "Content is not an object",
                                "Conflicting x-kind"})
             => error = "Missing successful response"

\* a classified document of two operations, one with an inline response and
\* one whose response is a reference into the type table
ResponseClassificationWitness ==
    /\ phase = "second"
    /\ Len(groupedOps) = 2
    /\ \E i \in 1..2 : groupedOps[i].response = SharedResp
    /\ \E i \in 1..2 : groupedOps[i].response # SharedResp
    /\ \A i \in 1..2 : Has(Get(ops[i].errors, "400"), "description")

\* the group of the last lookup was registered, and so was its sub-path
GroupRegistered == lookup.path \in OwnKeys(devices)
SubPathRegistered ==
    GroupRegistered /\ lookup.subPath \in OwnKeys(PropGet(devices, lookup.path).methods)

Words(text) == {text[i] : i \in 1..Len(text)}

\* C10 as stated: a lookup of a group that was never registered, or of a
\* sub-path that was never registered for its group, raises an error whose
\* message names the group (and the sub-path); it returns nothing.
LookupFailsLoudly ==
    lookup # <<>> =>
      /\ ~GroupRegistered =>
           /\ lookup.error.kind = "AssertionError"
           /\ lookup.path \in Words(lookup.error.text)
           /\ lookup.result = Undef
      /\ (lookup.op = "getMethod" /\ GroupRegistered /\ ~SubPathRegistered) =>
           /\ lookup.error.kind = "AssertionError"
           /\ PropGet(devices, lookup.path).name \in Words(lookup.error.text)
           /\ lookup.subPath \in Words(lookup.error.text)
           /\ lookup.result = Undef

\* a sub-path nobody registered, looked up without any error
LookupInheritedWitness ==
    /\ lookup # <<>>
    /\ lookup.op = "getMethod"
    /\ GroupRegistered /\ ~SubPathRegistered
    /\ lookup.error = NoError
    /\ lookup.result = Inherited(lookup.subPath)

\* the keys a lookup would use if letter case were ignored
FoldedGroup == toLowerCase(lookup.path)
FoldedSubPath == toLowerCase(lookup.subPath)
FoldedRegistered ==
    /\ FoldedGroup \in OwnKeys(devices)
    /\ FoldedSubPath \in OwnKeys(PropGet(devices, FoldedGroup).methods)

\* C11 as stated: lookup ignores letter case in the group and in the sub-path:
\* after registerDevice(D).registerMethod(M), getDevice(d).getMethod(m) returns
\* M for every d equal to D and m equal to M up to letter case, upper-case
\* letters in d or m included.
LookupIgnoresCase ==
    (lookup # <<>> /\ lookup.op = "getMethod" /\ FoldedRegistered) =>
      /\ lookup.error = NoError
      /\ lookup.result = PropGet(PropGet(devices, FoldedGroup).methods, FoldedSubPath)

\* a registered pair looked up with an upper-case letter: the assertion fails
LookupCaseWitness ==
    /\ lookup # <<>>
    /\ lookup.op = "getMethod"
    /\ FoldedRegistered
    /\ lookup.path # FoldedGroup \/ lookup.subPath # FoldedSubPath
    /\ lookup.error.kind = "AssertionError"
    /\ lookup.result = Undef

\* the integer schema of the range study, as declared and as canonicalized
Declared == Unwrap(keyIn.wrap, keyIn.orig)
Canonical == Unwrap(keyIn.wrap, keyIn.a)
CountedFormat ==
    IF Get(Declared, "format") = Undef THEN Str("int32") ELSE Get(Declared, "format")

\* -2147483648, 2147483647, 0 and 4294967295 in halves of 16 bits
LowerLimit ==
    IF CountedFormat = Str("int32") THEN [t |-> "num", hi |-> 0 - 32768, lo |-> 0]
    ELSE [t |-> "num", hi |-> 0, lo |-> 0]
UpperLimit ==
    IF CountedFormat = Str("int32") THEN [t |-> "num", hi |-> 32767, lo |-> 65535]
    ELSE [t |-> "num", hi |-> 65535, lo |-> 65535]

KeptUnless(field, limit) ==
    Get(Canonical, field) =
      IF Get(Declared, field) = limit THEN Undef ELSE Get(Declared, field)

\* C12: canonicalizing an integer schema of format int32 or uint32 (no format
\* counts as int32 and is written back as int32) removes minimum and maximum
\* when they equal the limit of the format and keeps them when they differ.
RangeElision ==
    (keyIn # <<>> /\ keyIn.how = "range" /\ keyIn.clean) =>
      /\ Get(Canonical, "format") = CountedFormat
      /\ CountedFormat \in {Str("int32"), Str("uint32")} =>
           /\ KeptUnless("minimum", LowerLimit)
           /\ KeptUnless("maximum", UpperLimit)

\* uint32 with minimum 1 and maximum 4294967295: the maximum goes, the minimum stays
RangeWitness ==
    /\ keyIn # <<>> /\ keyIn.how = "range" /\ keyIn.clean
    /\ Get(Declared, "format") = Str("uint32")
    /\ Get(Declared, "minimum") = Num(1)
    /\ Get(Declared, "maximum") = UpperLimit
    /\ Get(Canonical, "minimum") = Num(1)
    /\ ~Has(Canonical, "maximum")

\* the pairs ops() has gone past
Visited(p, m) == p < cursor[1] \/ (p = cursor[1] /\ m < cursor[2])

YieldsOf(path, method) ==
    {i \in 1..Len(yielded) : yielded[i].path = path /\ yielded[i].method = method}

\* the segments of a path that are not entirely a brace placeholder
PlainSegments(path) ==
    SelectSeq(path, LAMBDA x : x \notin {"{device_number}", "{device_type}", "{id}"})

\* C13: ops() yields exactly one operation for every (path, method) pair the
\* document defines and none for any other pair; every id is the method, then
\* the segments of the path that are not brace placeholders, in order, joined
\* by underscores.
EnumeratorExact ==
    /\ \A p \in 1..Len(apiPaths), m \in 1..Len(HttpMethods) :
         Cardinality(YieldsOf(apiPaths[p].path, HttpMethods[m])) =
           IF Visited(p, m) /\ HttpMethods[m] \in apiPaths[p].methods THEN 1 ELSE 0
    /\ \A i \in 1..Len(yielded) :
         /\ \E p \in 1..Len(apiPaths) :
              apiPaths[p].path = yielded[i].path /\ yielded[i].method \in apiPaths[p].methods
         /\ yielded[i].id = <<yielded[i].method>> \o PlainSegments(yielded[i].path)

\* GET on /telescope/{device_number}/connected, in a document that also has a
\* path item whose only key is no method: one operation, get_telescope_connected
EnumeratorWitness ==
    /\ cursor[1] > Len(apiPaths)
    /\ Len(apiPaths) = 2
    /\ apiPaths[2].methods = {"parameters"}
    /\ Len(yielded) = 1
    /\ yielded[1].path = <<"telescope", "{device_number}", "connected">>
    /\ yielded[1].id = <<"get", "telescope", "connected">>

\* the second pass is about to take an entry whose reference resolves
EntryStep ==
    /\ phase = "second"
    /\ entryIdx <= Len(entries)
    /\ ~resolveThrows(table, entries[entryIdx][2])

\* the schema object the entry designates
EntryId == resolveMaybeRef(table, entries[entryIdx][2])

\* the envelope of a tagged schema, validated and stripped
Stripped(schema) ==
    IF KindOf(schema) = Str("Response") THEN StripResponse(schema)
    ELSE IF KindOf(schema) = Str("Request") THEN StripRequest(schema)
    ELSE [schema |-> schema, err |-> ""]

\* the key was taken from the schema the step left
KeyTakenLast ==
    LET key == jsonWithoutOptFields(heap'[EntryId]) IN
    \/ /\ groupCounts' = CountKey(groupCounts, key)
       /\ table' = table
    \/ /\ groupCounts' = groupCounts
       /\ entries[entryIdx][1] \notin TableNames(table')
       /\ ReplacementName(heap', key) # <<>>

NamesNeverCollide ==
    [][phase = "first" =>
         \A i \in 1..Len(table) : table'[i] = table[i]]_vars

\* two operations on different paths whose request references are one and the
\* same minted name: the entry of the first was overwritten by the second
SameNameWitness ==
    /\ Len(groupedOps) = 2
    /\ ops[1].path # ops[2].path
    /\ groupedOps[1].request = groupedOps[2].request
    /\ groupedOps[1].request \notin {SharedReq, SharedResp}

ReplacementKeys == {refReplacements[k][1] : k \in 1..Len(refReplacements)}

\* the references recorded for the operations
RecordedReferences ==
    UNION {{groupedOps[i].request, groupedOps[i].response} : i \in 1..Len(groupedOps)}

\* a reference resolves: its name is an entry of the table, or a key of the
\* replacement map whose target is an entry of the table
Resolves(name) ==
    \/ name \in TableNames(table)
    \/ Replaced(name) /\ Designated(name) \in TableNames(table)

DeclaredProps == Get(keyIn.orig, "properties")
CanonicalProps == Get(keyIn.a, "properties")
StrippedProps == Get(keyOut[1].schema, "properties")
StudiedKind == Get(keyIn.orig, "x-kind")

\* the field is present with type integer and format uint32
IsUint32(field) ==
    /\ IsObj(field)
    /\ Get(field, "type") = Str("integer")
    /\ Get(field, "format") = Str("uint32")

\* the field declares nothing else, description and default apart
NothingElse(field) == KeySet(field) \ {"description", "default"} = {"type", "format"}

OthersKept ==
    StrippedProps =
      Obj(SelectSeq(CanonicalProps.kv,
                    LAMBDA p : p[1] \notin {"ClientID", "ClientTransactionID"}))

Untouched ==
    (keyOut # <<>> /\ StudiedKind # Str("Request")) =>
      keyOut[1].err = "" /\ StrippedProps = CanonicalProps

\* C17 as stated: a Request-tagged schema is accepted exactly when ClientID
\* and ClientTransactionID are both present with type integer and format
\* uint32, whatever their defaults; anything else is a fatal error; on
\* acceptance both fields are removed and every other property is kept;
\* Path-tagged and untagged schemas have no property removed.
RequestAcceptedIffUint32 ==
    /\ (keyOut # <<>> /\ StudiedKind = Str("Request")) =>
         /\ keyOut[1].err = "" <=>
              (IsUint32(Get(DeclaredProps, "ClientID"))
               /\ IsUint32(Get(DeclaredProps, "ClientTransactionID")))
         /\ keyOut[1].err = "" => OthersKept
    /\ Untouched

\* C17: a Request-tagged schema is accepted exactly when ClientID and
\* ClientTransactionID are both present and, once canonicalized, declare type
\* integer and format uint32 and nothing else but a description or a default,
\* whatever the default; anything else is a fatal error; on acceptance both
\* fields are removed and every other property is kept; Path-tagged and
\* untagged schemas have no property removed.
RequestAcceptedIffExactlyUint32 ==
    /\ (keyOut # <<>> /\ StudiedKind = Str("Request")) =>
         /\ keyOut[1].err = "" <=>
              \A name \in {"ClientID", "ClientTransactionID"} :
                 /\ IsUint32(Get(CanonicalProps, name))
                 /\ NothingElse(Get(CanonicalProps, name))
         /\ keyOut[1].err = "" => OthersKept
    /\ Untouched

\* accepted: ClientID declares default 1, ClientTransactionID the limits of
\* uint32, and the payload is kept
StripWitness ==
    /\ keyOut # <<>> /\ StudiedKind = Str("Request")
    /\ Get(Get(DeclaredProps, "ClientID"), "default") = Num(1)
    /\ Get(Get(DeclaredProps, "ClientTransactionID"), "maximum") = Uint32Max
    /\ keyOut[1].err = ""
    /\ KeySet(StrippedProps) = {"Value"}

\* the names in the required list of a schema
RequiredNames(schema) ==
    IF Has(schema, "required")
    THEN {Get(schema, "required").xs[i].s : i \in 1..Len(Get(schema, "required").xs)}
    ELSE {}

\* C18 as stated: after a completed run the required list of every Request-
\* or Response-tagged schema of the final table only names properties the
\* schema still has: a stripped envelope field is no longer listed.
RequiredNamesProperties ==
    Finished =>
      \A i \in 1..Len(table) :
         KindOf(EntrySchema(table[i])) \in {Str("Request"), Str("Response")} =>
           RequiredNames(EntrySchema(table[i]))
             \subseteq KeySet(Get(EntrySchema(table[i]), "properties"))

\* a completed run whose table holds a Request schema that lists ClientID as
\* required and has no property of that name
RequiredWitness ==
    /\ Finished
    /\ \E i \in 1..Len(table) :
         /\ KindOf(EntrySchema(table[i])) = Str("Request")
         /\ "ClientID" \in RequiredNames(EntrySchema(table[i]))
         /\ ~Has(Get(EntrySchema(table[i]), "properties"), "ClientID")

====
